---- MODULE Spec2Model ----
(***************************************************************************)
(* Model of er2g/Fetch-n-Snatch.                                           *)
(*                                                                         *)
(*  - Job (src/web_app/backend/main.py): one background run thread per     *)
(*    start(), the asyncio event loop calling cancel() and snapshot(),     *)
(*    and the child process with its stdout pipe.                          *)
(*  - chunk_text (src/analyze_ocr_outputs.py): the sliding-window loop.    *)
(*  - try_extract_json, aggregate_results, write_combined_report and     *)
(*    main (src/analyze_ocr_outputs.py): the response parser on the        *)
(*    characters of a response, the term aggregation, the combined report  *)
(*    and one run of the analysis command line.                            *)
(*  - download_drive_folder (src/drive_fetch.py): the walk over the        *)
(*    remote folder tree.                                                  *)
(***************************************************************************)
EXTENDS Integers, Sequences, FiniteSets, TLC

(* ------------------------------ bounds --------------------------------- *)
\* start() calls made on one Job when the class is driven directly
MaxStarts == 2
\* output lines one child process writes
MaxLines == 2
\* cancel() calls issued by the event loop
MaxCancels == 2
\* snapshot() calls issued by the event loop
MaxSnapshots == 1
\* appends of the log-bounding run (3000 in the contract's scenario)
MaxAppends == 3000
\* lines still missing to a full log where the nearly-full job starts
FullGap == 1
\* chunk_text inputs: text length, chunk size
MaxTextLen == 5
MaxChunk == 3
\* try_extract_json: longest free-form response, most items of an array
MaxRawLen == 4
MaxItems == 2
\* aggregate_results: most chunk results of one file
MaxResults == 3
\* write_combined_report: most files of one batch
MaxReportFiles == 3
\* analysis run: most text files under the root, largest chunk size given
MaxFiles == 2
MaxArg == 2
\* invocations of one command on the same directory
MaxRuns == 2
\* documents under the source folder of one OCR run
MaxDocs == 2
\* submissions the backend accepts, and its other requests
MaxJobs == 2
MaxRequests == 3

(* ------------------------- program constants --------------------------- *)
\* main.py:65-66, the log keeps the last 2000 lines
LogCap == 2000
\* main.py:81, return_code of a job whose process could not be spawned
SpawnFailCode == -1
\* analyze_ocr_outputs.py:28-29, the defaults of --chunk-size and --chunk-overlap
DEFAULT_CHUNK_SIZE == 6000
DEFAULT_CHUNK_OVERLAP == 300

\* Optional[...] values: None is the empty tuple, a value v is <<v>>
None == <<>>
Some(v) == <<v>>

Threads == 1..MaxStarts
\* exit codes of a process that ends by itself, and of one that got SIGTERM
\* (Popen reports -15 for death by the signal; a handler may exit with any)
OwnExitCodes == {0, 1}
TermExitCodes == {0, 1, -15}
Terminal == {"completed", "failed", "cancelled"}

Line(kind, n) == <<kind, n>>
Free == <<>>
RunHolder(t) == <<"run", t>>
LoopHolder == <<"loop">>

VARIABLES
  \* Job fields
  status, return_code, logs, process, lock,
  \* child processes, indexed by the run thread that spawned them
  proc, exitcode, pipe, emitted, emit_cap, closed, sigterm, signals,
  \* run threads
  rpc, rstdout, rline, starts,
  \* event loop
  epc, cancels, snapshots, snap,
  \* history variables
  history, cancel_hits, spawn_failed, cpre, appended, waits

jobFields == <<status, return_code, logs, process, lock>>
procVars == <<proc, exitcode, pipe, emitted, emit_cap, closed, sigterm, signals>>
runVars == <<rpc, rstdout, rline, starts>>
loopVars == <<epc, cancels, snapshots, snap>>
ghostVars == <<history, cancel_hits, spawn_failed, cpre, appended, waits>>
jobVars == <<jobFields, procVars, runVars, loopVars, ghostVars>>

VARIABLES
  \* chunk_text: arguments, locals, result
  text, chunk_size, overlap, index, chunks, cpc,
  \* history variable: the offset each chunk starts at
  chunk_starts

chunkVars == <<text, chunk_size, overlap, index, chunks, cpc, chunk_starts>>

\* the variables outside each component
\* try_extract_json (analyze_ocr_outputs.py): the response text, a sequence
\* of characters, the value it serialises (when it does), and the result
VARIABLES
  response, jvalue, jform, jresult, jpc

jsonVars == <<response, jvalue, jform, jresult, jpc>>

\* aggregate_results (analyze_ocr_outputs.py): the chunk results given, the
\* summary of the last call and of the call before it
VARIABLES
  per_chunk_results, summary, prev_summary, agg_calls

aggVars == <<per_chunk_results, summary, prev_summary, agg_calls>>

\* write_combined_report (analyze_ocr_outputs.py): the file payloads given
\* and the report written
VARIABLES
  report_results, report

reportVars == <<report_results, report>>

\* main of analyze_ocr_outputs.py: the command line and the file system it
\* runs on, its position and locals, and what it has done so far
VARIABLES
  arg_chunk_size, arg_chunk_overlap, root_exists, account_exists, client_ok,
  disk_files, cli_run,
  mpc, exit_code, text_files, file_no, file_chunks, chunk_no, per_chunk,
  processed, errors, combined,
  discovered, chunk_calls, model_calls, written

cliEnv == <<arg_chunk_size, arg_chunk_overlap, root_exists, account_exists,
            client_ok, disk_files, cli_run>>
cliVars == <<cliEnv, mpc, exit_code, text_files, file_no, file_chunks, chunk_no,
             per_chunk, processed, errors, combined,
             discovered, chunk_calls, model_calls, written>>

\* download_drive_folder (drive_fetch.py): the remote tree and the requests
\* that fail, the local files, the walk's locals, and what it has done
VARIABLES
  remote, overwrite, list_faults, http_faults, io_faults, drive_run,
  local_files, queue, visited, current, page_items, dpc, drive_exit,
  listed, downloads

driveEnv == <<remote, overwrite, list_faults, http_faults, io_faults, drive_run>>
driveVars == <<driveEnv, local_files, queue, visited, current, page_items, dpc,
               drive_exit, listed, downloads>>

\* main of gpu_turkish_ocr.py: the documents found, the command line, the
\* .txt files under the output folder, the loop's position and counters, and
\* what the run has done
VARIABLES
  ocr_files, ocr_force, ocr_min_length, ocr_existing,
  ocr_outputs, ocr_no, opc, ocr_skipped, ocr_processed,
  ocr_written, ocr_exist_skips

ocrEnv == <<ocr_files, ocr_force, ocr_min_length, ocr_existing>>
ocrVars == <<ocrEnv, ocr_outputs, ocr_no, opc, ocr_skipped, ocr_processed,
             ocr_written, ocr_exist_skips>>

\* the registry of the backend (main.py:113-114), the handler the event
\* loop is running and its local job, the cancel handlers suspended in
\* asyncio.sleep, and what the backend has done: the identifiers uuid4 has
\* given, the Job objects created, the Jobs whose thread was started, the
\* <<identifier, Job>> pairs returned to clients, the result of the last
\* lookup and of the last listing
VARIABLES
  jobs, jobs_lock, hpc, hjob, sleepers,
  uuids, job_objects, thread_started, returned, requests, job_found, all_jobs

regVars == <<jobs, jobs_lock, hpc, hjob, sleepers, uuids, job_objects,
             thread_started, returned, requests, job_found, all_jobs>>

offJob ==
  <<chunkVars, jsonVars, aggVars, reportVars, cliVars, driveVars, ocrVars, regVars>>
offChunk ==
  <<jobVars, jsonVars, aggVars, reportVars, cliVars, driveVars, ocrVars, regVars>>
offJson ==
  <<jobVars, chunkVars, aggVars, reportVars, cliVars, driveVars, ocrVars, regVars>>
offAgg ==
  <<jobVars, chunkVars, jsonVars, reportVars, cliVars, driveVars, ocrVars, regVars>>
offReport ==
  <<jobVars, chunkVars, jsonVars, aggVars, cliVars, driveVars, ocrVars, regVars>>
offCli ==
  <<jobVars, chunkVars, jsonVars, aggVars, reportVars, driveVars, ocrVars, regVars>>
offDrive ==
  <<jobVars, chunkVars, jsonVars, aggVars, reportVars, cliVars, ocrVars, regVars>>

offOcr ==
  <<jobVars, chunkVars, jsonVars, aggVars, reportVars, cliVars, driveVars, regVars>>

offReg ==
  <<jobVars, chunkVars, jsonVars, aggVars, reportVars, cliVars, driveVars, ocrVars>>

vars ==
  <<jobVars, chunkVars, jsonVars, aggVars, reportVars, cliVars, driveVars, ocrVars,
    regVars>>

(* --------------------------- Job._append_log --------------------------- *)
\* main.py:64
Appended(l, line) == Append(l, line)

\* variant: the slice keeps the oldest lines instead of the newest
TruncatedHead(l) ==
  IF Len(l) > LogCap THEN SubSeq(l, 1, LogCap) ELSE l

\* main.py:65-66
Truncated(l) ==
  IF Len(l) > LogCap THEN SubSeq(l, Len(l) - LogCap + 1, Len(l)) ELSE l

\* main.py:62-66, the whole call
AppendLog(l, line) == Truncated(Appended(l, line))

\* the last n entries of a sequence
LastN(s, n) == IF Len(s) > n THEN SubSeq(s, Len(s) - n + 1, Len(s)) ELSE s

(* ------------------------------- Init ---------------------------------- *)
\* the dataclass defaults, main.py:47-57
JobInit ==
  /\ status = "pending"
  /\ return_code = None
  /\ logs = <<>>
  /\ process = None
  /\ lock = Free
  /\ proc = [p \in Threads |-> "none"]
  /\ exitcode = [p \in Threads |-> 0]
  /\ pipe = [p \in Threads |-> 0]
  /\ emitted = [p \in Threads |-> 0]
  /\ emit_cap = MaxLines
  /\ closed = [p \in Threads |-> FALSE]
  /\ sigterm = [p \in Threads |-> FALSE]
  /\ signals = 0
  /\ rpc = [t \in Threads |-> "idle"]
  /\ rstdout = [t \in Threads |-> None]
  /\ rline = [t \in Threads |-> None]
  /\ starts = 0
  /\ epc = "idle"
  /\ cancels = 0
  /\ snapshots = 0
  /\ snap = [logs |-> <<>>, status |-> "pending", return_code |-> None]
  /\ history = <<>>
  /\ cancel_hits = 0
  /\ spawn_failed = FALSE
  /\ cpre = None
  /\ appended = 0
  /\ waits = 0

(* ------------------------------ Job.start ------------------------------ *)
\* main.py:59-60, a new thread running _run on every call
JobStart ==
  /\ starts < MaxStarts
  /\ starts' = starts + 1
  /\ rpc' = [rpc EXCEPT ![starts + 1] = "set_running"]
  /\ UNCHANGED <<offJob, jobFields, procVars, rstdout, rline, loopVars, ghostVars>>

\* main.py:183-188, the only caller of start(): once per Job
RegisterJob ==
  /\ starts = 0
  /\ JobStart

(* ------------------------------- Job._run ------------------------------ *)
\* main.py:69
RunSetRunning(t) ==
  /\ rpc[t] = "set_running"
  /\ status' = "running"
  /\ rpc' = [rpc EXCEPT ![t] = "log_cmd"]
  /\ UNCHANGED <<offJob, return_code, logs, process, lock, procVars, rstdout, rline,
                 starts, loopVars, ghostVars>>

AppendSites == {"log_cmd", "log_exc", "log_line", "log_exit"}

\* the line each _append_log call of _run passes (main.py:70, 82, 88, 91)
RunLine(t) ==
  CASE rpc[t] = "log_cmd" -> Line("cmd", 0)
    [] rpc[t] = "log_exc" -> Line("spawnfail", 0)
    [] rpc[t] = "log_line" -> rline[t][1]
    [] rpc[t] = "log_exit" -> Line("exit", return_code[1])

\* variant: the except block does not return and the spawn is tried again
AfterAppendRetry(pc) ==
  CASE pc = "log_cmd" -> "popen"
    [] pc = "log_exc" -> "popen"
    [] pc = "log_line" -> "read"
    [] pc = "log_exit" -> "done"

\* where _run continues after each _append_log call
AfterAppend(pc) ==
  CASE pc = "log_cmd" -> "popen"
    [] pc = "log_exc" -> "done"
    [] pc = "log_line" -> "read"
    [] pc = "log_exit" -> "done"

\* main.py:63-64 from _run: take the lock, append
RunAppendAcquire(t) ==
  /\ rpc[t] \in AppendSites
  /\ lock = Free
  /\ lock' = RunHolder(t)
  /\ logs' = Appended(logs, RunLine(t))
  /\ UNCHANGED <<offJob, status, return_code, process, procVars, runVars, loopVars,
                 ghostVars>>

\* main.py:65-66 from _run: truncate, release the lock
RunAppendRelease(t) ==
  /\ rpc[t] \in AppendSites
  /\ lock = RunHolder(t)
  /\ logs' = Truncated(logs)
  /\ lock' = Free
  /\ history' = Append(history, logs[Len(logs)])
  /\ rpc' = [rpc EXCEPT ![t] = AfterAppend(rpc[t])]
  /\ UNCHANGED <<offJob, status, return_code, process, procVars, rstdout, rline,
                 starts, loopVars, cancel_hits, spawn_failed, cpre,
                 appended, waits>>

\* main.py:72-78, Popen succeeds
RunPopenOk(t) ==
  /\ rpc[t] = "popen"
  /\ proc' = [proc EXCEPT ![t] = "alive"]
  /\ process' = Some(t)
  /\ rpc' = [rpc EXCEPT ![t] = "open_stdout"]
  /\ UNCHANGED <<offJob, status, return_code, logs, lock, exitcode, pipe, emitted,
                 emit_cap, closed, sigterm, signals, rstdout, rline, starts, loopVars,
                 ghostVars>>

\* main.py:72-79, Popen raises
RunPopenFail(t) ==
  /\ rpc[t] = "popen"
  /\ rpc' = [rpc EXCEPT ![t] = "exc_status"]
  /\ spawn_failed' = TRUE
  /\ UNCHANGED <<offJob, jobFields, procVars, rstdout, rline, starts, loopVars,
                 history, cancel_hits, cpre, appended, waits>>

\* main.py:80
RunExcStatus(t) ==
  /\ rpc[t] = "exc_status"
  /\ status' = "failed"
  /\ rpc' = [rpc EXCEPT ![t] = "exc_rc"]
  /\ UNCHANGED <<offJob, return_code, logs, process, lock, procVars, rstdout, rline,
                 starts, loopVars, ghostVars>>

\* main.py:81
RunExcRc(t) ==
  /\ rpc[t] = "exc_rc"
  /\ return_code' = Some(SpawnFailCode)
  /\ rpc' = [rpc EXCEPT ![t] = "log_exc"]
  /\ UNCHANGED <<offJob, status, logs, process, lock, procVars, rstdout, rline,
                 starts, loopVars, ghostVars>>

\* main.py:85-87, self._process.stdout is looked up and iterated
RunOpenStdout(t) ==
  /\ rpc[t] = "open_stdout"
  /\ rstdout' = [rstdout EXCEPT ![t] = process]
  /\ rpc' = [rpc EXCEPT ![t] = "read"]
  /\ UNCHANGED <<offJob, jobFields, procVars, rline, starts, loopVars, ghostVars>>

\* main.py:87-88, the iterator yields the next line of the pipe
RunReadLine(t) ==
  /\ rpc[t] = "read"
  /\ LET p == rstdout[t][1] IN
       /\ ~closed[p]
       /\ pipe[p] > 0
       /\ rline' = [rline EXCEPT ![t] = Some(Line("out", emitted[p] - pipe[p] + 1))]
       /\ pipe' = [pipe EXCEPT ![p] = pipe[p] - 1]
  /\ rpc' = [rpc EXCEPT ![t] = "log_line"]
  /\ UNCHANGED <<offJob, jobFields, proc, exitcode, emitted, emit_cap, closed, sigterm, signals,
                 rstdout, starts, loopVars, ghostVars>>

\* main.py:86-87, end of file: the loop ends and the with block closes stdout
RunReadEof(t) ==
  /\ rpc[t] = "read"
  /\ LET p == rstdout[t][1] IN
       /\ ~closed[p]
       /\ pipe[p] = 0
       /\ proc[p] = "exited"
       /\ closed' = [closed EXCEPT ![p] = TRUE]
  /\ rpc' = [rpc EXCEPT ![t] = "wait"]
  /\ UNCHANGED <<offJob, jobFields, proc, exitcode, pipe, emitted, emit_cap, sigterm, signals,
                 rstdout, rline, starts, loopVars, ghostVars>>

\* main.py:87, reading a stdout another run thread has closed raises
\* ValueError and ends the thread (two start() calls only)
RunReadClosed(t) ==
  /\ rpc[t] = "read"
  /\ closed[rstdout[t][1]]
  /\ rpc' = [rpc EXCEPT ![t] = "crashed"]
  /\ UNCHANGED <<offJob, jobFields, procVars, rstdout, rline, starts, loopVars,
                 ghostVars>>

\* variant: the thread comes back to wait() after it has recorded the code
RunWaitAgain(t) ==
  /\ rpc[t] = "wait"
  /\ waits < 2
  /\ proc[process[1]] = "exited"
  /\ return_code' = Some(exitcode[process[1]])
  /\ waits' = waits + 1
  /\ UNCHANGED <<offJob, status, logs, process, lock, procVars, runVars,
                 loopVars, history, cancel_hits, spawn_failed, cpre,
                 appended>>

\* main.py:89
RunWait(t) ==
  /\ rpc[t] = "wait"
  /\ proc[process[1]] = "exited"
  /\ return_code' = Some(exitcode[process[1]])
  /\ waits' = waits + 1
  /\ rpc' = [rpc EXCEPT ![t] = "set_final"]
  /\ UNCHANGED <<offJob, status, logs, process, lock, procVars, rstdout, rline,
                 starts, loopVars, history, cancel_hits, spawn_failed, cpre,
                 appended>>

\* variant: the truthiness of the return code decides
FinalStatusTruthy(rc) == IF rc # Some(0) THEN "completed" ELSE "failed"

\* main.py:90
FinalStatus(rc) == IF rc = Some(0) THEN "completed" ELSE "failed"

\* main.py:90
RunSetFinal(t) ==
  /\ rpc[t] = "set_final"
  /\ status' = FinalStatus(return_code)
  /\ rpc' = [rpc EXCEPT ![t] = "log_exit"]
  /\ UNCHANGED <<offJob, return_code, logs, process, lock, procVars, rstdout, rline,
                 starts, loopVars, ghostVars>>

RunStep(t) ==
  \/ RunSetRunning(t)
  \/ RunAppendAcquire(t)
  \/ RunAppendRelease(t)
  \/ RunPopenOk(t)
  \/ RunPopenFail(t)
  \/ RunExcStatus(t)
  \/ RunExcRc(t)
  \/ RunOpenStdout(t)
  \/ RunReadLine(t)
  \/ RunReadEof(t)
  \/ RunWait(t)
  \/ RunSetFinal(t)

(* --------------------------- the child process ------------------------- *)
\* the child writes one line to the pipe Popen opened (main.py:74-77)
ProcEmit(p) ==
  /\ proc[p] = "alive"
  /\ emitted[p] < emit_cap
  /\ emitted' = [emitted EXCEPT ![p] = emitted[p] + 1]
  /\ pipe' = [pipe EXCEPT ![p] = pipe[p] + 1]
  /\ UNCHANGED <<offJob, jobFields, proc, exitcode, emit_cap, closed, sigterm, signals, runVars,
                 loopVars, ghostVars>>

\* the child exits; what Popen.wait() will return (main.py:89)
ProcExit(p) ==
  /\ proc[p] = "alive"
  /\ \E c \in (IF sigterm[p] THEN TermExitCodes ELSE OwnExitCodes) :
       exitcode' = [exitcode EXCEPT ![p] = c]
  /\ proc' = [proc EXCEPT ![p] = "exited"]
  /\ UNCHANGED <<offJob, jobFields, pipe, emitted, emit_cap, closed, sigterm, signals, runVars,
                 loopVars, ghostVars>>

ProcStep(p) == ProcEmit(p) \/ ProcExit(p)

(* ------------------------------ Job.cancel ----------------------------- *)
\* main.py:291-297, the event loop enters cancel()
CancelCall ==
  /\ epc = "idle"
  /\ cancels < MaxCancels
  /\ cancels' = cancels + 1
  /\ epc' = "c_check"
  /\ cpre' = Some(status)
  /\ UNCHANGED <<offJob, jobFields, procVars, runVars, snapshots, snap, history,
                 cancel_hits, spawn_failed, appended, waits>>

\* main.py:94, the guard of cancel()
CanCancel(pr, st) == pr # None /\ st[pr[1]] = "alive"

\* main.py:94, guard true
CancelCheckHit ==
  /\ epc = "c_check"
  /\ CanCancel(process, proc)
  /\ epc' = "c_term"
  /\ cancel_hits' = cancel_hits + 1
  /\ UNCHANGED <<offJob, jobFields, procVars, runVars, cancels, snapshots, snap,
                 history,  spawn_failed, cpre, appended, waits>>

\* main.py:94, guard false: cancel() returns
CancelCheckMiss ==
  /\ epc = "c_check"
  /\ ~CanCancel(process, proc)
  /\ epc' = "idle"
  /\ UNCHANGED <<offJob, jobFields, procVars, runVars, cancels, snapshots, snap,
                 ghostVars>>

\* main.py:95, terminate() signals the child unless it has exited meanwhile
CancelTerminate ==
  /\ epc = "c_term"
  /\ LET p == process[1] IN
       IF proc[p] = "alive"
       THEN /\ sigterm' = [sigterm EXCEPT ![p] = TRUE]
            /\ signals' = signals + 1
       ELSE UNCHANGED <<offJob, sigterm, signals>>
  /\ epc' = "c_status"
  /\ UNCHANGED <<offJob, jobFields, proc, exitcode, pipe, emitted, emit_cap, closed, runVars,
                 cancels, snapshots, snap, ghostVars>>

\* main.py:96
CancelSetStatus ==
  /\ epc = "c_status"
  /\ status' = "cancelled"
  /\ epc' = "c_log"
  /\ UNCHANGED <<offJob, return_code, logs, process, lock, procVars, runVars, cancels,
                 snapshots, snap, ghostVars>>

\* main.py:97 with 63-64: take the lock, append
CancelAppendAcquire ==
  /\ epc = "c_log"
  /\ lock = Free
  /\ lock' = LoopHolder
  /\ logs' = Appended(logs, Line("cancel", 0))
  /\ UNCHANGED <<offJob, status, return_code, process, procVars, runVars, loopVars,
                 ghostVars>>

\* main.py:97 with 65-66: truncate, release the lock; cancel() returns
CancelAppendRelease ==
  /\ epc = "c_log"
  /\ lock = LoopHolder
  /\ logs' = Truncated(logs)
  /\ lock' = Free
  /\ history' = Append(history, logs[Len(logs)])
  /\ epc' = "idle"
  /\ UNCHANGED <<offJob, status, return_code, process, procVars, runVars, cancels,
                 snapshots, snap, cancel_hits, spawn_failed, cpre,
                 appended, waits>>

\* the steps cancel() itself takes after it was entered
CancelStep ==
  \/ CancelCheckHit
  \/ CancelCheckMiss
  \/ CancelTerminate
  \/ CancelSetStatus
  \/ CancelAppendAcquire
  \/ CancelAppendRelease

(* ----------------------------- Job.snapshot ---------------------------- *)
\* main.py:282-288 and 299, the event loop enters snapshot()
SnapshotCall ==
  /\ epc = "idle"
  /\ snapshots < MaxSnapshots
  /\ snapshots' = snapshots + 1
  /\ epc' = "s_copy"
  /\ UNCHANGED <<offJob, jobFields, procVars, runVars, cancels, snap, ghostVars>>

\* variant: the copy is taken without the lock
SnapshotCopyUnlocked ==
  /\ epc = "s_copy"
  /\ snap' = [snap EXCEPT !.logs = logs]
  /\ epc' = "s_status"
  /\ UNCHANGED <<offJob, jobFields, procVars, runVars, cancels, snapshots, ghostVars>>

\* main.py:100-101, the copy is taken holding the lock
SnapshotCopy ==
  /\ epc = "s_copy"
  /\ lock = Free
  /\ snap' = [snap EXCEPT !.logs = logs]
  /\ epc' = "s_status"
  /\ UNCHANGED <<offJob, jobFields, procVars, runVars, cancels, snapshots, history,
                 cancel_hits, spawn_failed, cpre, appended, waits>>

\* main.py:106
SnapshotReadStatus ==
  /\ epc = "s_status"
  /\ snap' = [snap EXCEPT !.status = status]
  /\ epc' = "s_rc"
  /\ UNCHANGED <<offJob, jobFields, procVars, runVars, cancels, snapshots, ghostVars>>

\* main.py:107-110, snapshot() returns
SnapshotReadRc ==
  /\ epc = "s_rc"
  /\ snap' = [snap EXCEPT !.return_code = return_code]
  /\ epc' = "idle"
  /\ UNCHANGED <<offJob, jobFields, procVars, runVars, cancels, snapshots, ghostVars>>

SnapshotStep ==
  \/ SnapshotCopy
  \/ SnapshotReadStatus
  \/ SnapshotReadRc

(* ------------------------------ chunk_text ----------------------------- *)
Min(a, b) == IF a < b THEN a ELSE b
Max(a, b) == IF a > b THEN a ELSE b

Chars == {"a", "b"}
Texts == UNION {[1..n -> Chars] : n \in 0..MaxTextLen}

\* no chunk_text call in progress
ChunkIdle ==
  /\ text = <<>>
  /\ chunk_size = 1
  /\ overlap = 0
  /\ index = 0
  /\ chunks = <<>>
  /\ cpc = "idle"
  /\ chunk_starts = <<>>

\* a call chunk_text(text, chunk_size, overlap) with arguments parse_args
\* accepts (analyze_ocr_outputs.py:130-135): small ones, and a text of 6200
\* characters with the default size and overlap
ChunkInit ==
  /\ \/ /\ text \in Texts
        /\ chunk_size \in 1..MaxChunk
        /\ overlap \in 0..(chunk_size - 1)
     \/ /\ text = [i \in 1..(DEFAULT_CHUNK_SIZE + 200) |-> IF i % 2 = 0 THEN "a" ELSE "b"]
        /\ chunk_size = DEFAULT_CHUNK_SIZE
        /\ overlap = DEFAULT_CHUNK_OVERLAP
  /\ index = 0
  /\ chunks = <<>>
  /\ cpc = "call"
  /\ chunk_starts = <<>>

\* analyze_ocr_outputs.py:168-169
ChunkTextEmpty ==
  /\ cpc = "call"
  /\ text = <<>>
  /\ cpc' = "done"
  /\ UNCHANGED <<offChunk, text, chunk_size, overlap, index, chunks,
                 chunk_starts>>

\* analyze_ocr_outputs.py:170-172
ChunkTextBegin ==
  /\ cpc = "call"
  /\ text # <<>>
  /\ chunks' = <<>>
  /\ index' = 0
  /\ cpc' = "loop"
  /\ UNCHANGED <<offChunk, text, chunk_size, overlap, chunk_starts>>

\* variant: the next chunk starts one stride after the current one
NextIndexStride(i, size, ov, end) == i + size - ov

\* analyze_ocr_outputs.py:178
NextIndex(i, size, ov, end) == Max(i + size - ov, end)

\* analyze_ocr_outputs.py:173-179, one test of the while condition and the
\* iteration or the return that follows it
ChunkTextLoop ==
  /\ cpc = "loop"
  /\ IF index < Len(text)
     THEN LET end == Min(index + chunk_size, Len(text)) IN
            /\ chunks' = Append(chunks, SubSeq(text, index + 1, end))
            /\ chunk_starts' = Append(chunk_starts, index)
            /\ IF end = Len(text)
               THEN /\ cpc' = "done"
                    /\ index' = index
               ELSE /\ index' = NextIndex(index, chunk_size, overlap, end)
                    /\ cpc' = "loop"
     ELSE /\ cpc' = "done"
          /\ UNCHANGED <<index, chunks, chunk_starts>>
  /\ UNCHANGED <<offChunk, text, chunk_size, overlap>>

(* ---------------------------- try_extract_json ------------------------ *)
\* JSON values as json.loads builds them: int, str, bool, None, list, dict
\* (a dict as the sequence of its items in insertion order)
JNum(n) == <<"num", n>>
JStr(cs) == <<"str", cs>>
JBool(b) == <<"bool", b>>
JArr(items) == <<"arr", items>>
JObj(members) == <<"obj", members>>
JNull == None

Quote == "\""
Newline == "\n"
Whitespace == {" ", Newline}
Digits == <<"0", "1", "2", "3", "4", "5", "6", "7", "8", "9">>
LitTrue == <<"t", "r", "u", "e">>
LitFalse == <<"f", "a", "l", "s", "e">>
LitNull == <<"n", "u", "l", "l">>
\* the backquote character, written ^ here
Backquote == "^"
FenceOpen == <<Backquote, Backquote, Backquote, "j", "s", "o", "n">>
FenceClose == <<Backquote, Backquote, Backquote>>

\* the character at 1-based position i, "" past the end
At(s, i) == IF i >= 1 /\ i <= Len(s) THEN s[i] ELSE ""
HasAt(s, i, lit) ==
  /\ i >= 1
  /\ i + Len(lit) - 1 <= Len(s)
  /\ SubSeq(s, i, i + Len(lit) - 1) = lit

\* the first position at or after i that holds no whitespace
SkipWs(s, i) ==
  LET rest == {j \in i..Len(s) : s[j] \notin Whitespace}
  IN IF rest = {} THEN Len(s) + 1 ELSE CHOOSE j \in rest : \A k \in rest : j <= k

\* str.strip()
Strip(s) ==
  LET keep == {j \in 1..Len(s) : s[j] \notin Whitespace}
  IN IF keep = {} THEN <<>>
     ELSE SubSeq(s, CHOOSE j \in keep : \A k \in keep : j <= k,
                    CHOOSE j \in keep : \A k \in keep : j >= k)

DigitValue(c) == CHOOSE d \in 0..9 : Digits[d + 1] = c
IsDigit(c) == \E d \in 1..10 : Digits[d] = c

\* the end of the run of digits that starts at i
DigitsEnd(s, i) ==
  LET stop == {j \in i..Len(s) : ~IsDigit(s[j])}
  IN IF stop = {} THEN Len(s) ELSE (CHOOSE j \in stop : \A k \in stop : j <= k) - 1

RECURSIVE DecimalValue(_)
DecimalValue(ds) ==
  IF ds = <<>> THEN 0
  ELSE 10 * DecimalValue(SubSeq(ds, 1, Len(ds) - 1)) + DigitValue(ds[Len(ds)])

\* json.decoder: a parse gives <<value, next position>>, or ParseError
ParseError == <<>>

\* py_scanstring after the opening quote at i - 1: up to the closing quote;
\* a control character inside the string is an error (strict mode)
ParseString(s, i) ==
  LET close == {j \in i..Len(s) : s[j] = Quote}
  IN IF close = {} THEN ParseError
     ELSE LET j == CHOOSE c \in close : \A k \in close : c <= k
              body == SubSeq(s, i, j - 1)
          IN IF \E k \in 1..Len(body) : body[k] = Newline
             THEN ParseError
             ELSE <<body, j + 1>>

\* dict(pairs): a repeated key keeps its place and takes the last value
PutMember(members, key, val) ==
  IF \E k \in 1..Len(members) : members[k][1] = key
  THEN [k \in 1..Len(members) |->
          IF members[k][1] = key THEN <<key, val>> ELSE members[k]]
  ELSE Append(members, <<key, val>>)

RECURSIVE ParseValue(_, _), ParseArrayItems(_, _, _), ParseObjectMembers(_, _, _)

\* json.scanner.py_make_scanner._scan_once at position i
ParseValue(s, i) ==
  LET c == At(s, i) IN
  IF c = Quote THEN
    LET r == ParseString(s, i + 1)
    IN IF r = ParseError THEN ParseError ELSE <<JStr(r[1]), r[2]>>
  ELSE IF c = "{" THEN
    LET j == SkipWs(s, i + 1)
    IN IF At(s, j) = "}" THEN <<JObj(<<>>), j + 1>>
       ELSE ParseObjectMembers(s, j, <<>>)
  ELSE IF c = "[" THEN
    LET j == SkipWs(s, i + 1)
    IN IF At(s, j) = "]" THEN <<JArr(<<>>), j + 1>>
       ELSE ParseArrayItems(s, j, <<>>)
  ELSE IF HasAt(s, i, LitNull) THEN <<JNull, i + 4>>
  ELSE IF HasAt(s, i, LitTrue) THEN <<JBool(TRUE), i + 4>>
  ELSE IF HasAt(s, i, LitFalse) THEN <<JBool(FALSE), i + 5>>
  ELSE IF IsDigit(c) THEN
    \* NUMBER_RE: 0 or a digit run without a leading zero
    LET e == IF c = "0" THEN i ELSE DigitsEnd(s, i)
    IN <<JNum(DecimalValue(SubSeq(s, i, e))), e + 1>>
  ELSE ParseError

\* json.decoder.JSONArray: the items from position i on
ParseArrayItems(s, i, acc) ==
  LET r == ParseValue(s, i) IN
  IF r = ParseError THEN ParseError
  ELSE LET items == Append(acc, r[1])
           j == SkipWs(s, r[2])
       IN IF At(s, j) = "]" THEN <<JArr(items), j + 1>>
          ELSE IF At(s, j) = "," THEN ParseArrayItems(s, SkipWs(s, j + 1), items)
          ELSE ParseError

\* json.decoder.JSONObject: the members from position i on
ParseObjectMembers(s, i, acc) ==
  IF At(s, i) # Quote THEN ParseError
  ELSE
    LET k == ParseString(s, i + 1) IN
    IF k = ParseError THEN ParseError
    ELSE
      LET j == SkipWs(s, k[2]) IN
      IF At(s, j) # ":" THEN ParseError
      ELSE
        LET r == ParseValue(s, SkipWs(s, j + 1)) IN
        IF r = ParseError THEN ParseError
        ELSE
          LET members == PutMember(acc, k[1], r[1])
              e == SkipWs(s, r[2])
          IN IF At(s, e) = "}" THEN <<JObj(members), e + 1>>
             ELSE IF At(s, e) = "," THEN ParseObjectMembers(s, SkipWs(s, e + 1), members)
             ELSE ParseError

\* json.loads(s): Some(value), or None when it raises (no value, or data
\* after the value)
Loads(s) ==
  LET r == ParseValue(s, SkipWs(s, 1)) IN
  IF r = ParseError THEN None
  ELSE IF SkipWs(s, r[2]) # Len(s) + 1 THEN None
  ELSE Some(r[1])

RECURSIVE DigitsOf(_)
DigitsOf(n) ==
  IF n < 10 THEN <<Digits[n + 1]>>
  ELSE DigitsOf(n \div 10) \o <<Digits[(n % 10) + 1]>>

RECURSIVE Dumps(_), DumpsItems(_), DumpsMembers(_)

\* json.dumps(v) with the default separators ", " and ": " (strings here hold
\* no character that json.dumps escapes)
Dumps(v) ==
  IF v = JNull THEN LitNull
  ELSE IF v[1] = "num" THEN DigitsOf(v[2])
  ELSE IF v[1] = "str" THEN <<Quote>> \o v[2] \o <<Quote>>
  ELSE IF v[1] = "bool" THEN (IF v[2] THEN LitTrue ELSE LitFalse)
  ELSE IF v[1] = "arr" THEN <<"[">> \o DumpsItems(v[2]) \o <<"]">>
  ELSE <<"{">> \o DumpsMembers(v[2]) \o <<"}">>

DumpsItems(items) ==
  IF Len(items) = 0 THEN <<>>
  ELSE IF Len(items) = 1 THEN Dumps(items[1])
  ELSE Dumps(items[1]) \o <<",", " ">> \o DumpsItems(Tail(items))

DumpsMembers(members) ==
  IF Len(members) = 0 THEN <<>>
  ELSE LET m == members[1]
           one == <<Quote>> \o m[1] \o <<Quote, ":", " ">> \o Dumps(m[2])
       IN IF Len(members) = 1 THEN one
          ELSE one \o <<",", " ">> \o DumpsMembers(Tail(members))

\* one match of ```json\s*(\{[\s\S]*?\})\s*``` starting at q:
\* <<group start, group end, match end>>, or <<>>
MatchAt(s, q) ==
  IF ~HasAt(s, q, FenceOpen) THEN <<>>
  ELSE LET b == SkipWs(s, q + Len(FenceOpen))
           ends == {e \in (b + 1)..Len(s) :
                      s[e] = "}" /\ HasAt(s, SkipWs(s, e + 1), FenceClose)}
       IN IF At(s, b) # "{" \/ ends = {} THEN <<>>
          ELSE LET e == CHOOSE x \in ends : \A y \in ends : x <= y
               IN <<b, e, SkipWs(s, e + 1) + Len(FenceClose) - 1>>

RECURSIVE FindAllFrom(_, _)
\* re.findall: the groups of the leftmost non-overlapping matches from p on
FindAllFrom(s, p) ==
  LET from == {q \in p..Len(s) : MatchAt(s, q) # <<>>}
  IN IF from = {} THEN <<>>
     ELSE LET q == CHOOSE x \in from : \A y \in from : x <= y
              m == MatchAt(s, q)
          IN <<SubSeq(s, m[1], m[2])>> \o FindAllFrom(s, m[3] + 1)

\* for candidate in code_blocks: the first one json.loads accepts
FirstLoadable(blocks) ==
  LET ok == {k \in 1..Len(blocks) : Loads(blocks[k]) # None}
  IN IF ok = {} THEN None
     ELSE Loads(blocks[CHOOSE k \in ok : \A j \in ok : k <= j])

\* stripped[find("{") : rfind("}") + 1] when end > start
BraceSpan(s) ==
  LET opens == {j \in 1..Len(s) : s[j] = "{"}
      closes == {j \in 1..Len(s) : s[j] = "}"}
  IN IF opens = {} \/ closes = {} THEN None
     ELSE LET start == CHOOSE x \in opens : \A y \in opens : x <= y
              end == CHOOSE x \in closes : \A y \in closes : x >= y
          IN IF end > start THEN Some(SubSeq(s, start, end)) ELSE None

\* analyze_ocr_outputs.py:182-207; the result is the parsed value or None
TryExtractJson(t) ==
  LET stripped == Strip(t)
      whole == Loads(stripped)
  IN IF whole # None THEN whole[1]
     ELSE LET block == FirstLoadable(FindAllFrom(stripped, 1))
          IN IF block # None THEN block[1]
             ELSE LET span == BraceSpan(stripped)
                  IN IF span = None THEN None
                     ELSE LET inner == Loads(span[1])
                          IN IF inner # None THEN inner[1] ELSE None

SeqsUpTo(S, n) == UNION {[1..k -> S] : k \in 0..n}

\* a string that holds the text of two fences
FencedString ==
  <<"}">> \o FenceClose \o <<" ">> \o FenceOpen \o <<"{", "}">> \o FenceClose

\* the JSON values serialised: scalars, arrays and objects of scalars, and
\* arrays and objects of those
JsonStrings == {<<>>, <<"a">>, <<"{">>, <<"a", "}">>}
JsonScalars ==
  {JNum(1), JNum(20), JBool(TRUE), JBool(FALSE)} \cup {JStr(cs) : cs \in JsonStrings}
JsonKeys == {<<"a">>, <<"b">>}
JsonMembers(V) ==
  {ms \in SeqsUpTo(JsonKeys \X V, MaxItems) :
     \A i, j \in 1..Len(ms) : ms[i][1] = ms[j][1] => i = j}
JsonFlat ==
  {JArr(xs) : xs \in SeqsUpTo(JsonScalars, MaxItems)}
    \cup {JObj(ms) : ms \in JsonMembers(JsonScalars)}
JsonNested ==
  {JArr(<<v>>) : v \in JsonFlat} \cup {JObj(<<<<<<"a">>, v>>>>) : v \in JsonFlat}
JsonValues ==
  JsonScalars \cup JsonFlat \cup JsonNested
    \cup {JObj(<<<<<<"a">>, JStr(FencedString)>>>>)}

RawChars == {"1", "[", "]", "{", "}", Quote, "a", " "}
RawTexts == SeqsUpTo(RawChars, MaxRawLen)

\* no try_extract_json call in progress
JsonIdle ==
  /\ response = <<>>
  /\ jvalue = None
  /\ jform = "idle"
  /\ jresult = None
  /\ jpc = "idle"

\* a call try_extract_json(response): the response is json.dumps(V), that
\* text inside a ```json fence, or free-form text
JsonInit ==
  /\ \/ /\ jform = "bare"
        /\ jvalue \in JsonValues
        /\ response = Dumps(jvalue)
     \/ /\ jform = "fenced"
        /\ jvalue \in JsonValues
        /\ \E ws \in {<<>>, <<Newline>>} :
             response = FenceOpen \o ws \o Dumps(jvalue) \o ws \o FenceClose
     \/ /\ jform = "raw"
        /\ jvalue = None
        /\ response \in RawTexts
  /\ jresult = None
  /\ jpc = "call"

\* analyze_ocr_outputs.py:182-207
TryExtractJsonCall ==
  /\ jpc = "call"
  /\ jresult' = TryExtractJson(response)
  /\ jpc' = "done"
  /\ UNCHANGED <<offJson, response, jvalue, jform>>

(* ---------------------------- aggregate_results ----------------------- *)
\* analyze_ocr_outputs.py:35; a key is one unit of text
TERM_KEYS == <<<<"terms">>, <<"terimler">>, <<"keywords">>, <<"anahtar_kelimeler">>>>

\* the units of text that are compared, in code point order ('.' and '/'
\* before the digits, "a.txt" before "analysis_outputs" before "b.txt")
CharOrder == <<" ", ".analysis", "/", "1", "B", "a", "analysis_outputs", "b", "c", "x">>
Code(c) == CHOOSE i \in 1..Len(CharOrder) : CharOrder[i] = c

\* s < t for str
StrLess(s, t) ==
  \E k \in 1..(Len(t)) :
    /\ k <= Len(s) + 1
    /\ \A j \in 1..(k - 1) : s[j] = t[j]
    /\ \/ k = Len(s) + 1
       \/ k <= Len(s) /\ Code(s[k]) < Code(t[k])

RECURSIVE Sorted(_)
\* sorted(S) of a set of str
Sorted(S) ==
  IF S = {} THEN <<>>
  ELSE LET m == CHOOSE x \in S : \A y \in S : y = x \/ StrLess(x, y)
       IN <<m>> \o Sorted(S \ {m})

\* isinstance(v, dict / list / str)
IsKind(v, kind) == v # None /\ v[1] = kind

\* payload.get(key)
Get(payload, key) ==
  LET ms == payload[2]
      hit == {k \in 1..Len(ms) : ms[k][1] = key}
  IN IF hit = {} THEN None ELSE ms[CHOOSE k \in hit : TRUE][2]

\* variant: the terms as they are written
ListTermsRaw(value) ==
  {value[2][k][2] : k \in {j \in 1..Len(value[2]) : IsKind(value[2][j], "str")}}

\* analyze_ocr_outputs.py:219, {str(term).strip() for term in value if isinstance(term, str)}
ListTerms(value) ==
  {Strip(value[2][k][2]) : k \in {j \in 1..Len(value[2]) : IsKind(value[2][j], "str")}}

\* analyze_ocr_outputs.py:214-219, what one item adds to union
ItemTerms(item) ==
  LET payload == item.parsed_json
  IN IF IsKind(payload, "obj")
     THEN UNION {LET value == Get(payload, TERM_KEYS[k])
                 IN IF IsKind(value, "arr") THEN ListTerms(value) ELSE {}
                 : k \in 1..Len(TERM_KEYS)}
     ELSE {}

RECURSIVE UnionTerms(_)
\* analyze_ocr_outputs.py:212-219, union after the loop
UnionTerms(results) ==
  IF Len(results) = 0 THEN {}
  ELSE UnionTerms(SubSeq(results, 1, Len(results) - 1)) \cup ItemTerms(results[Len(results)])

\* analyze_ocr_outputs.py:210-222, summary.unique_terms: Some(list), or None
\* when the summary has no such field
AggregateResults(results) ==
  LET union == UnionTerms(results)
  IN IF union # {}
     THEN Some(Sorted({term \in union : term # <<>>}))
     ELSE None

ChunkResult(k, raw, parsed) ==
  [chunk_index |-> k, raw_response |-> raw, parsed_json |-> parsed]

Terms(key, items) == JObj(<<<<<<key>>, JArr(items)>>>>)

\* parsed payloads of chunk results
AggPayloads ==
  { None, JNum(1), JArr(<<JStr(<<"a">>)>>), JObj(<<>>),
    Terms("terms", <<JStr(<<"a">>), JStr(<<"b">>)>>),
    Terms("terms", <<JStr(<<"b">>), JStr(<<"c">>)>>),
    Terms("terimler", <<JStr(<<" ", "a">>), JStr(<<"B">>)>>),
    Terms("keywords", <<JStr(<<" ">>), JStr(<<>>)>>),
    Terms("anahtar_kelimeler", <<JStr(<<"c", " ">>), JNum(1), JStr(<<"a", "b">>)>>),
    Terms("other", <<JStr(<<"x">>)>>),
    JObj(<<<<<<"terms">>, JStr(<<"x">>)>>>>),
    JObj(<<<<<<"terms">>, JArr(<<JStr(<<"b">>)>>)>>, <<<<"keywords">>, JArr(<<JStr(<<"a">>)>>)>>>>) }

\* no aggregate_results call in progress
AggIdle ==
  /\ per_chunk_results = <<>>
  /\ summary = None
  /\ prev_summary = None
  /\ agg_calls = 0

\* the chunk results of one file
AggInit ==
  /\ \E ps \in SeqsUpTo(AggPayloads, MaxResults) :
       per_chunk_results = [k \in 1..Len(ps) |-> ChunkResult(k, <<>>, ps[k])]
  /\ summary = None
  /\ prev_summary = None
  /\ agg_calls = 0

\* analyze_ocr_outputs.py:210-222, called on the same list again
AggregateResultsCall ==
  /\ agg_calls < 2
  /\ agg_calls' = agg_calls + 1
  /\ prev_summary' = summary
  /\ summary' = AggregateResults(per_chunk_results)
  /\ UNCHANGED <<offAgg, per_chunk_results>>

(* -------------------------- write_combined_report -------------------- *)
\* what process_file returns, as far as the report reads it
FilePayload(path, chunk_results, unique_terms) ==
  [relative_path |-> path,
   results |-> [chunks |-> chunk_results, summary |-> unique_terms]]

\* analyze_ocr_outputs.py:371-375, overall_terms after the loop
OverallTerms(results) ==
  UNION {LET terms == results[k].results.summary
         IN IF terms = None THEN {} ELSE {terms[1][i] : i \in 1..Len(terms[1])}
         : k \in 1..Len(results)}

\* variant: the payloads in the order given
SortedByPathAsGiven(results) == results

RECURSIVE SortedByPath(_)
\* analyze_ocr_outputs.py:390, sorted(results, key=relative_path)
SortedByPath(results) ==
  IF Len(results) = 0 THEN <<>>
  ELSE LET least == {k \in 1..Len(results) :
                       \A j \in 1..Len(results) :
                         ~StrLess(results[j].relative_path, results[k].relative_path)}
           k == CHOOSE x \in least : \A y \in least : x <= y
       IN <<results[k]>>
            \o SortedByPath([j \in 1..(Len(results) - 1) |->
                               IF j < k THEN results[j] ELSE results[j + 1]])

\* analyze_ocr_outputs.py:391-397, one file section: Some(terms) for the
\* line "- Terimler: ...", None for the line "- Terim bulunamadı"
FileSection(payload) ==
  LET terms == payload.results.summary
  IN [relative_path |-> payload.relative_path,
      terms |-> IF terms # None /\ Len(terms[1]) > 0 THEN terms ELSE None]

\* analyze_ocr_outputs.py:365-397, the report written: the file count, the
\* section "## Genel Terimler" (None when it is left out) and the file
\* sections
CombinedReport(results) ==
  LET overall == OverallTerms(results)
      ordered == SortedByPath(results)
  IN [total |-> Len(results),
      overall_terms |-> IF overall # {} THEN Some(Sorted(overall)) ELSE None,
      files |-> [k \in 1..Len(ordered) |-> FileSection(ordered[k])]]

ReportPaths == {<<"a">>, <<"a", "b">>, <<"B">>, <<"b">>}
ReportTerms ==
  {None, Some(<<>>), Some(<<<<"x">>>>), Some(<<<<"a">>, <<"x">>>>), Some(<<<<"B">>>>)}

\* no write_combined_report call in progress
ReportIdle ==
  /\ report_results = <<>>
  /\ report = None

\* the payloads of one batch, in any order
ReportInit ==
  /\ \E ps \in SeqsUpTo(ReportPaths, MaxReportFiles) :
       /\ \A i, j \in 1..Len(ps) : ps[i] = ps[j] => i = j
       /\ \E ts \in [1..Len(ps) -> ReportTerms] :
            report_results = [k \in 1..Len(ps) |-> FilePayload(ps[k], <<>>, ts[k])]
  /\ report = None

\* analyze_ocr_outputs.py:365-397
WriteCombinedReportCall ==
  /\ report = None
  /\ report' = Some(CombinedReport(report_results))
  /\ UNCHANGED <<offReport, report_results>>

(* ------------------------ analyze_ocr_outputs.main -------------------- *)
RECURSIVE ChunkTextFrom(_, _, _, _)
\* analyze_ocr_outputs.py:172-178, the chunks from index on
ChunkTextFrom(t, size, ov, idx) ==
  IF idx >= Len(t) THEN <<>>
  ELSE LET end == Min(idx + size, Len(t))
           chunk == SubSeq(t, idx + 1, end)
       IN IF end = Len(t) THEN <<chunk>>
          ELSE <<chunk>> \o ChunkTextFrom(t, size, ov, NextIndex(idx, size, ov, end))

\* analyze_ocr_outputs.py:167-179
ChunkText(t, size, ov) == IF t = <<>> THEN <<>> ELSE ChunkTextFrom(t, size, ov, 0)

\* variant: an overlap equal to the chunk size is let through
ConfigRejectedLax(size, ov) == size <= 0 \/ ov < 0 \/ ov > size

\* analyze_ocr_outputs.py:130-135, the three parser.error tests
ConfigRejected(size, ov) == size <= 0 \/ ov < 0 \/ ov >= size

\* argparse's parser.error exits with status 2
ParserErrorCode == 2

PathNames == <<"a", "b", "c", "x">>
FileTexts == {<<>>, <<"a", "b">>}
\* what goes wrong with one text file: nothing, reading it, writing its outputs
Faults == {"none", "read", "write"}

\* what the model answers for a chunk, and the text put in place of an
\* answer when the call raises
ModelResponses == {Dumps(Terms("terms", <<JStr(<<"x">>)>>)), <<"a">>}
ErrorSentinel == <<"[", "MODEL HATA", "]", ":", " ", "e">>

\* no analysis run in progress
CliIdle ==
  /\ arg_chunk_size = 1
  /\ arg_chunk_overlap = 0
  /\ root_exists = FALSE
  /\ account_exists = FALSE
  /\ client_ok = FALSE
  /\ disk_files = <<>>
  /\ cli_run = 0
  /\ mpc = "idle"
  /\ exit_code = None
  /\ text_files = <<>>
  /\ file_no = 0
  /\ file_chunks = <<>>
  /\ chunk_no = 0
  /\ per_chunk = <<>>
  /\ processed = <<>>
  /\ errors = 0
  /\ combined = None
  /\ discovered = FALSE
  /\ chunk_calls = 0
  /\ model_calls = <<>>
  /\ written = {}

\* main(argv) about to run: any chunk size and overlap on the command line,
\* the root and the service account file there or not, the .txt files under
\* the root in sorted order
CliInit ==
  /\ arg_chunk_size \in 0..MaxArg
  /\ arg_chunk_overlap \in (-1)..MaxArg
  /\ root_exists \in BOOLEAN
  /\ account_exists \in BOOLEAN
  /\ client_ok \in BOOLEAN
  /\ \E n \in 0..MaxFiles :
       \E ts \in [1..n -> FileTexts] :
         \E fs \in [1..n -> Faults] :
           disk_files = [k \in 1..n |->
                           [path |-> <<PathNames[k]>>, text |-> ts[k], fault |-> fs[k]]]
  /\ cli_run = 1
  /\ mpc = "parse"
  /\ exit_code = None
  /\ text_files = <<>>
  /\ file_no = 0
  /\ file_chunks = <<>>
  /\ chunk_no = 0
  /\ per_chunk = <<>>
  /\ processed = <<>>
  /\ errors = 0
  /\ combined = None
  /\ discovered = FALSE
  /\ chunk_calls = 0
  /\ model_calls = <<>>
  /\ written = {}

cliLocals == <<text_files, file_no, file_chunks, chunk_no, per_chunk, processed,
               errors, combined>>
cliGhosts == <<discovered, chunk_calls, model_calls, written>>

\* sys.exit(code) or return code from main
Exit(code) ==
  /\ mpc' = "exit"
  /\ exit_code' = Some(code)

\* analyze_ocr_outputs.py:130-135, parser.error
ParseArgsError ==
  /\ mpc = "parse"
  /\ ConfigRejected(arg_chunk_size, arg_chunk_overlap)
  /\ Exit(ParserErrorCode)
  /\ UNCHANGED <<offCli, cliEnv, cliLocals, cliGhosts>>

\* analyze_ocr_outputs.py:137-151, parse_args returns
ParseArgsOk ==
  /\ mpc = "parse"
  /\ ~ConfigRejected(arg_chunk_size, arg_chunk_overlap)
  /\ mpc' = "main"
  /\ UNCHANGED <<offCli, cliEnv, exit_code, cliLocals, cliGhosts>>

\* analyze_ocr_outputs.py:403-405
MainNoRoot ==
  /\ mpc = "main"
  /\ ~root_exists
  /\ Exit(1)
  /\ UNCHANGED <<offCli, cliEnv, cliLocals, cliGhosts>>

\* analyze_ocr_outputs.py:406-408
MainNoAccount ==
  /\ mpc = "main"
  /\ root_exists
  /\ ~account_exists
  /\ Exit(1)
  /\ UNCHANGED <<offCli, cliEnv, cliLocals, cliGhosts>>

\* analyze_ocr_outputs.py:410
MainFindFiles ==
  /\ mpc = "main"
  /\ root_exists
  /\ account_exists
  /\ text_files' = [k \in 1..Len(disk_files) |-> disk_files[k].path]
  /\ discovered' = TRUE
  /\ mpc' = "found"
  /\ UNCHANGED <<offCli, cliEnv, exit_code, file_no, file_chunks, chunk_no, per_chunk,
                 processed, errors, combined, chunk_calls, model_calls, written>>

\* analyze_ocr_outputs.py:411-413
MainNoFiles ==
  /\ mpc = "found"
  /\ text_files = <<>>
  /\ Exit(0)
  /\ UNCHANGED <<offCli, cliEnv, cliLocals, cliGhosts>>

\* analyze_ocr_outputs.py:415-420, runner.init() raises
MainInitFails ==
  /\ mpc = "found"
  /\ text_files # <<>>
  /\ ~client_ok
  /\ Exit(1)
  /\ UNCHANGED <<offCli, cliEnv, cliLocals, cliGhosts>>

\* analyze_ocr_outputs.py:415-432
MainInitOk ==
  /\ mpc = "found"
  /\ text_files # <<>>
  /\ client_ok
  /\ file_no' = 1
  /\ mpc' = "loop"
  /\ UNCHANGED <<offCli, cliEnv, exit_code, text_files, file_chunks, chunk_no, per_chunk,
                 processed, errors, combined, cliGhosts>>

\* analyze_ocr_outputs.py:296-301, process_file reads and chunks the file
ProcessFileRead ==
  /\ mpc = "loop"
  /\ file_no <= Len(text_files)
  /\ disk_files[file_no].fault # "read"
  /\ file_chunks' = ChunkText(disk_files[file_no].text, arg_chunk_size, arg_chunk_overlap)
  /\ chunk_calls' = chunk_calls + 1
  /\ per_chunk' = <<>>
  /\ chunk_no' = 1
  /\ mpc' = "chunks"
  /\ UNCHANGED <<offCli, cliEnv, exit_code, text_files, file_no, processed, errors,
                 combined, discovered, model_calls, written>>

\* analyze_ocr_outputs.py:296 raises, 435-438 in main catch it
ProcessFileReadError ==
  /\ mpc = "loop"
  /\ file_no <= Len(text_files)
  /\ disk_files[file_no].fault = "read"
  /\ errors' = errors + 1
  /\ file_no' = file_no + 1
  /\ UNCHANGED <<offCli, cliEnv, mpc, exit_code, text_files, file_chunks, chunk_no,
                 per_chunk, processed, combined, cliGhosts>>

\* analyze_ocr_outputs.py:307-314, the result of one chunk is appended
AppendChunkResult(response_text) ==
  /\ per_chunk' = Append(per_chunk,
                         ChunkResult(chunk_no, response_text, TryExtractJson(response_text)))
  /\ chunk_no' = chunk_no + 1

\* analyze_ocr_outputs.py:302-303, run_chunk returns
RunChunkOk ==
  /\ mpc = "chunks"
  /\ chunk_no <= Len(file_chunks)
  /\ \E r \in ModelResponses : AppendChunkResult(r)
  /\ model_calls' = Append(model_calls, <<file_no, chunk_no, "ok">>)
  /\ UNCHANGED <<offCli, cliEnv, mpc, exit_code, text_files, file_no, file_chunks,
                 processed, errors, combined, discovered, chunk_calls, written>>

\* variant: a failed call ends the loop over the chunks
RunChunkFailStops ==
  /\ mpc = "chunks"
  /\ chunk_no <= Len(file_chunks)
  /\ per_chunk' = Append(per_chunk, ChunkResult(chunk_no, ErrorSentinel, None))
  /\ chunk_no' = Len(file_chunks) + 1
  /\ model_calls' = Append(model_calls, <<file_no, chunk_no, "fail">>)
  /\ UNCHANGED <<offCli, cliEnv, mpc, exit_code, text_files, file_no, file_chunks,
                 processed, errors, combined, discovered, chunk_calls, written>>

\* analyze_ocr_outputs.py:302-306, run_chunk raises
RunChunkFail ==
  /\ mpc = "chunks"
  /\ chunk_no <= Len(file_chunks)
  /\ AppendChunkResult(ErrorSentinel)
  /\ model_calls' = Append(model_calls, <<file_no, chunk_no, "fail">>)
  /\ UNCHANGED <<offCli, cliEnv, mpc, exit_code, text_files, file_no, file_chunks,
                 processed, errors, combined, discovered, chunk_calls, written>>

\* analyze_ocr_outputs.py:316-318 and 439-440, no chunk: the file is skipped
ProcessFileSkip ==
  /\ mpc = "chunks"
  /\ chunk_no > Len(file_chunks)
  /\ per_chunk = <<>>
  /\ file_no' = file_no + 1
  /\ mpc' = "loop"
  /\ UNCHANGED <<offCli, cliEnv, exit_code, text_files, file_chunks, chunk_no, per_chunk,
                 processed, errors, combined, cliGhosts>>

\* analyze_ocr_outputs.py:320-362 and 441, both outputs written
ProcessFileWrite ==
  /\ mpc = "chunks"
  /\ chunk_no > Len(file_chunks)
  /\ per_chunk # <<>>
  /\ disk_files[file_no].fault # "write"
  /\ written' = written \cup {<<"json", text_files[file_no]>>, <<"txt", text_files[file_no]>>}
  /\ processed' = Append(processed,
                         FilePayload(text_files[file_no], per_chunk, AggregateResults(per_chunk)))
  /\ file_no' = file_no + 1
  /\ mpc' = "loop"
  /\ UNCHANGED <<offCli, cliEnv, exit_code, text_files, file_chunks, chunk_no, per_chunk,
                 errors, combined, discovered, chunk_calls, model_calls>>

\* analyze_ocr_outputs.py:336 raises, 435-438 in main catch it
ProcessFileWriteError ==
  /\ mpc = "chunks"
  /\ chunk_no > Len(file_chunks)
  /\ per_chunk # <<>>
  /\ disk_files[file_no].fault = "write"
  /\ errors' = errors + 1
  /\ file_no' = file_no + 1
  /\ mpc' = "loop"
  /\ UNCHANGED <<offCli, cliEnv, exit_code, text_files, file_chunks, chunk_no, per_chunk,
                 processed, combined, cliGhosts>>

\* analyze_ocr_outputs.py:443-445
MainNothingProcessed ==
  /\ mpc = "loop"
  /\ file_no > Len(text_files)
  /\ processed = <<>>
  /\ Exit(1)
  /\ UNCHANGED <<offCli, cliEnv, cliLocals, cliGhosts>>

\* analyze_ocr_outputs.py:447-457
MainWriteReport ==
  /\ mpc = "loop"
  /\ file_no > Len(text_files)
  /\ processed # <<>>
  /\ combined' = Some(CombinedReport(processed))
  /\ written' = written \cup {<<"md", <<"combined_report">>>>}
  /\ Exit(0)
  /\ UNCHANGED <<offCli, cliEnv, text_files, file_no, file_chunks, chunk_no, per_chunk,
                 processed, errors, discovered, chunk_calls, model_calls>>

\* analyze_ocr_outputs.py:79, the default of --analysis-dir-name
AnalysisDirName == "analysis_outputs"

\* analyze_ocr_outputs.py:282-290, the .analysis.txt file of a text file
\* (a path is written without its .txt suffix)
ArtifactPath(path) == <<AnalysisDirName, "/">> \o path \o <<".analysis">>

\* analyze_ocr_outputs.py:338-340, the artifact starts with two header lines
ArtifactText == <<"#", " ">>

\* the .txt files under the root once the outputs of this run are on disk,
\* in the order sorted() gives them
DiskAfterRun ==
  LET old == {disk_files[k].path : k \in 1..Len(disk_files)}
      new == {ArtifactPath(w[2]) : w \in {v \in written : v[1] = "txt"}}
      paths == Sorted(old \cup new)
  IN [k \in 1..Len(paths) |->
        IF paths[k] \in old
        THEN CHOOSE d \in {disk_files[j] : j \in 1..Len(disk_files)} : d.path = paths[k]
        ELSE [path |-> paths[k], text |-> ArtifactText, fault |-> "none"]]

\* analyze_ocr_outputs.py:400-457, the command is run again with the same
\* arguments after a run in which every text file was analysed and every
\* model call answered
MainRerun ==
  /\ mpc = "exit"
  /\ exit_code = Some(0)
  /\ errors = 0
  /\ Len(processed) = Len(text_files)
  /\ \A k \in 1..Len(model_calls) : model_calls[k][3] = "ok"
  /\ cli_run < MaxRuns
  /\ cli_run' = cli_run + 1
  /\ disk_files' = DiskAfterRun
  /\ mpc' = "parse"
  /\ exit_code' = None
  /\ text_files' = <<>>
  /\ file_no' = 0
  /\ file_chunks' = <<>>
  /\ chunk_no' = 0
  /\ per_chunk' = <<>>
  /\ processed' = <<>>
  /\ errors' = 0
  /\ combined' = None
  /\ discovered' = FALSE
  /\ chunk_calls' = 0
  /\ model_calls' = <<>>
  /\ written' = {}
  /\ UNCHANGED <<offCli, arg_chunk_size, arg_chunk_overlap, root_exists,
                 account_exists, client_ok>>

(* ----------------------- drive_fetch.download_drive_folder ------------- *)
\* one entry of a files().list response; a name is <<stem, suffix>>; kind is
\* "folder", "binary" (any other file), "export" (a type in GOOGLE_EXPORTS)
\* or "unsupported" (another application/vnd.google-apps type)
Item(id, stem, suffix, kind) == [id |-> id, name |-> <<stem, suffix>>, kind |-> kind]

\* drive_fetch.py:14-17, the suffix of every export
ExportSuffix == ".pdf"

\* a tree: folders A and B under the root
DriveTree ==
  [f \in {"root", "A", "B"} |->
     IF f = "root"
     THEN <<Item("A", "A", "", "folder"), Item("f1", "f1", ".txt", "binary"),
            Item("B", "B", "", "folder")>>
     ELSE IF f = "A"
     THEN <<Item("g1", "g1", "", "export"), Item("f2", "f2", ".pdf", "binary")>>
     ELSE <<Item("u1", "u1", "", "unsupported"), Item("f3", "f3", ".txt", "binary")>>]

\* folder B under the root and under A, and A under B
DriveShared ==
  [f \in {"root", "A", "B"} |->
     IF f = "root"
     THEN <<Item("A", "A", "", "folder"), Item("B", "B", "", "folder")>>
     ELSE IF f = "A"
     THEN <<Item("B", "B", "", "folder"), Item("f1", "f1", ".txt", "binary")>>
     ELSE <<Item("A", "A", "", "folder"), Item("g1", "g1", "", "export")>>]

DriveGraphs == {DriveTree, DriveShared}
DriveFolders == {"root", "A", "B"}
\* the files whose download may fail
FaultyFiles == {"f1", "g1"}

\* no walk in progress
DriveIdle ==
  /\ remote = <<>>
  /\ overwrite = FALSE
  /\ list_faults = {}
  /\ http_faults = {}
  /\ io_faults = {}
  /\ drive_run = 0
  /\ local_files = {}
  /\ queue = <<>>
  /\ visited = {}
  /\ current = None
  /\ page_items = <<>>
  /\ dpc = "idle"
  /\ drive_exit = None
  /\ listed = <<>>
  /\ downloads = <<>>

\* drive_fetch.py:81-86, the walk about to start at the root folder
DriveInit ==
  /\ remote \in DriveGraphs
  /\ overwrite \in BOOLEAN
  /\ list_faults \in SUBSET DriveFolders
  /\ http_faults \in SUBSET FaultyFiles
  /\ io_faults \in SUBSET (FaultyFiles \ http_faults)
  /\ drive_run = 1
  /\ local_files \in SUBSET {<<<<"f1", ".txt">>>>}
  /\ queue = <<<<"root", <<>>>>>>
  /\ visited = {}
  /\ current = None
  /\ page_items = <<>>
  /\ dpc = "walk"
  /\ drive_exit = None
  /\ listed = <<>>
  /\ downloads = <<>>

driveLocals == <<queue, visited, current, page_items>>

\* variant: a folder is listed every time it is popped
DrivePopAny ==
  /\ dpc = "walk"
  /\ queue # <<>>
  /\ current' = Some(queue[Len(queue)])
  /\ queue' = SubSeq(queue, 1, Len(queue) - 1)
  /\ visited' = visited \cup {queue[Len(queue)][1]}
  /\ dpc' = "list"
  /\ UNCHANGED <<offDrive, driveEnv, local_files, page_items, drive_exit, listed, downloads>>

\* drive_fetch.py:88-93, queue.pop() of a folder not visited yet
DrivePopNew ==
  /\ dpc = "walk"
  /\ queue # <<>>
  /\ queue[Len(queue)][1] \notin visited
  /\ current' = Some(queue[Len(queue)])
  /\ queue' = SubSeq(queue, 1, Len(queue) - 1)
  /\ visited' = visited \cup {queue[Len(queue)][1]}
  /\ dpc' = "list"
  /\ UNCHANGED <<offDrive, driveEnv, local_files, page_items, drive_exit, listed, downloads>>

\* drive_fetch.py:88-91, queue.pop() of a visited folder
DrivePopVisited ==
  /\ dpc = "walk"
  /\ queue # <<>>
  /\ queue[Len(queue)][1] \in visited
  /\ queue' = SubSeq(queue, 1, Len(queue) - 1)
  /\ UNCHANGED <<offDrive, driveEnv, local_files, visited, current, page_items, dpc,
                 drive_exit, listed, downloads>>

\* drive_fetch.py:97-102, the listing of the current folder (one page)
DriveList ==
  /\ dpc = "list"
  /\ current[1][1] \notin list_faults
  /\ page_items' = remote[current[1][1]]
  /\ listed' = Append(listed, current[1][1])
  /\ dpc' = "items"
  /\ UNCHANGED <<offDrive, driveEnv, local_files, queue, visited, current, drive_exit,
                 downloads>>

\* drive_fetch.py:97-102 raises; nothing in download_drive_folder catches
\* it, main (156-160) logs it and returns 1
DriveListError ==
  /\ dpc = "list"
  /\ current[1][1] \in list_faults
  /\ dpc' = "exit"
  /\ drive_exit' = Some(1)
  /\ UNCHANGED <<offDrive, driveEnv, local_files, driveLocals, listed, downloads>>

\* drive_fetch.py:108, target_path = current_dest / name
TargetPath(item) == Append(current[1][2], item.name)

\* drive_fetch.py:124-126, the path an export is written to
ExportPath(item) ==
  Append(current[1][2],
         IF item.name[2] # ExportSuffix THEN <<item.name[1], ExportSuffix>> ELSE item.name)

\* drive_fetch.py:110-112
DriveItemFolder ==
  /\ dpc = "items"
  /\ page_items # <<>>
  /\ Head(page_items).kind = "folder"
  /\ queue' = Append(queue, <<Head(page_items).id, TargetPath(Head(page_items))>>)
  /\ page_items' = Tail(page_items)
  /\ UNCHANGED <<offDrive, driveEnv, local_files, visited, current, dpc, drive_exit,
                 listed, downloads>>

\* drive_fetch.py:114-116, the target exists and overwrite is off
DriveItemExists ==
  /\ dpc = "items"
  /\ page_items # <<>>
  /\ Head(page_items).kind # "folder"
  /\ ~overwrite
  /\ TargetPath(Head(page_items)) \in local_files
  /\ page_items' = Tail(page_items)
  /\ UNCHANGED <<offDrive, driveEnv, local_files, queue, visited, current, dpc,
                 drive_exit, listed, downloads>>

\* the item at the head of the page is to be fetched
ToFetch(kind) ==
  /\ dpc = "items"
  /\ page_items # <<>>
  /\ Head(page_items).kind = kind
  /\ overwrite \/ TargetPath(Head(page_items)) \notin local_files

\* drive_fetch.py:119-123
DriveItemUnsupported ==
  /\ ToFetch("unsupported")
  /\ page_items' = Tail(page_items)
  /\ UNCHANGED <<offDrive, driveEnv, local_files, queue, visited, current, dpc,
                 drive_exit, listed, downloads>>

\* the file written for the item at the head of the page
WrittenPath ==
  IF Head(page_items).kind = "export"
  THEN ExportPath(Head(page_items))
  ELSE TargetPath(Head(page_items))

\* drive_fetch.py:124-133, the export or download succeeds
DriveItemDownload ==
  /\ ToFetch("export") \/ ToFetch("binary")
  /\ Head(page_items).id \notin (http_faults \cup io_faults)
  /\ local_files' = local_files \cup {WrittenPath}
  /\ downloads' = Append(downloads, Head(page_items).id)
  /\ page_items' = Tail(page_items)
  /\ UNCHANGED <<offDrive, driveEnv, queue, visited, current, dpc, drive_exit, listed>>

\* drive_fetch.py:134-135, the request raises HttpError
DriveItemHttpError ==
  /\ ToFetch("export") \/ ToFetch("binary")
  /\ Head(page_items).id \in http_faults
  /\ page_items' = Tail(page_items)
  /\ UNCHANGED <<offDrive, driveEnv, local_files, queue, visited, current, dpc,
                 drive_exit, listed, downloads>>

\* drive_fetch.py:65-74 raises another exception (a write or a transport
\* error); nothing in download_drive_folder catches it, main returns 1
DriveItemOtherError ==
  /\ ToFetch("export") \/ ToFetch("binary")
  /\ Head(page_items).id \in io_faults
  /\ dpc' = "exit"
  /\ drive_exit' = Some(1)
  /\ UNCHANGED <<offDrive, driveEnv, local_files, driveLocals, listed, downloads>>

\* drive_fetch.py:137-139, the page is done and there is no next page
DrivePageDone ==
  /\ dpc = "items"
  /\ page_items = <<>>
  /\ dpc' = "walk"
  /\ UNCHANGED <<offDrive, driveEnv, local_files, driveLocals, drive_exit, listed,
                 downloads>>

\* drive_fetch.py:88 and 162-163, the queue is empty
DriveDone ==
  /\ dpc = "walk"
  /\ queue = <<>>
  /\ dpc' = "exit"
  /\ drive_exit' = Some(0)
  /\ UNCHANGED <<offDrive, driveEnv, local_files, driveLocals, listed, downloads>>

\* drive_fetch.py:142-163, the command is run again with the same arguments
\* on the same destination: download_drive_folder starts over (81-86) with
\* the local files the runs before it left
DriveRerun ==
  /\ dpc = "exit"
  /\ drive_run < MaxRuns
  /\ drive_run' = drive_run + 1
  /\ queue' = <<<<"root", <<>>>>>>
  /\ visited' = {}
  /\ current' = None
  /\ page_items' = <<>>
  /\ dpc' = "walk"
  /\ drive_exit' = None
  /\ listed' = <<>>
  /\ downloads' = <<>>
  /\ UNCHANGED <<offDrive, remote, overwrite, list_faults, http_faults, io_faults,
                 local_files>>

(* --------------------------- gpu_turkish_ocr.main ---------------------- *)
\* a document is <<stem, suffix>>, directly under the source folder
DocStems == {"a", "b"}
\* gpu_turkish_ocr.py:17-28, three of the supported suffixes
DocSuffixes == {".pdf", ".pptx", ".png"}
Docs == DocStems \X DocSuffixes

\* what the extraction of one document gives: None when it raises, or the
\* length of the stripped text
Extractions == {None, Some(0), Some(2)}

\* the sequences of n different documents
DocLists(n) == {l \in [1..n -> Docs] : \A i, j \in 1..n : i # j => l[i] # l[j]}

\* gpu_turkish_ocr.py:149-151, with_suffix(".txt") of the mirrored path
relative_output_path(doc) == <<doc[1], ".txt">>

\* no OCR run in progress
OcrIdle ==
  /\ ocr_files = <<>>
  /\ ocr_force = FALSE
  /\ ocr_min_length = 0
  /\ ocr_existing = {}
  /\ ocr_outputs = {}
  /\ ocr_no = 0
  /\ opc = "idle"
  /\ ocr_skipped = 0
  /\ ocr_processed = 0
  /\ ocr_written = <<>>
  /\ ocr_exist_skips = 0

\* gpu_turkish_ocr.py:158-189, main has found the documents (in the order
\* rglob gives them) and is about to loop over them
OcrInit ==
  /\ \E n \in 0..MaxDocs :
       \E l \in DocLists(n) :
         \E e \in [1..n -> Extractions] :
           ocr_files = [k \in 1..n |-> [doc |-> l[k], extraction |-> e[k]]]
  /\ ocr_force \in BOOLEAN
  /\ ocr_min_length \in {0, 1}
  /\ ocr_existing \in SUBSET {<<"a", ".txt">>}
  /\ ocr_outputs = ocr_existing
  /\ ocr_no = 0
  /\ opc = "found"
  /\ ocr_skipped = 0
  /\ ocr_processed = 0
  /\ ocr_written = <<>>
  /\ ocr_exist_skips = 0

\* gpu_turkish_ocr.py:190-192
OcrNoFiles ==
  /\ opc = "found"
  /\ ocr_files = <<>>
  /\ opc' = "exit"
  /\ UNCHANGED <<offOcr, ocrEnv, ocr_outputs, ocr_no, ocr_skipped, ocr_processed,
                 ocr_written, ocr_exist_skips>>

\* gpu_turkish_ocr.py:194-201
OcrBegin ==
  /\ opc = "found"
  /\ ocr_files # <<>>
  /\ ocr_no' = 1
  /\ opc' = "loop"
  /\ UNCHANGED <<offOcr, ocrEnv, ocr_outputs, ocr_skipped, ocr_processed,
                 ocr_written, ocr_exist_skips>>

\* the document the loop is at
OcrAt == ocr_files[ocr_no]

\* gpu_turkish_ocr.py:209, the test that skips a document
OutputExists == relative_output_path(OcrAt.doc) \in ocr_outputs /\ ~ocr_force

\* gpu_turkish_ocr.py:209-212
OcrSkipExisting ==
  /\ opc = "loop"
  /\ ocr_no <= Len(ocr_files)
  /\ OutputExists
  /\ ocr_skipped' = ocr_skipped + 1
  /\ ocr_exist_skips' = ocr_exist_skips + 1
  /\ ocr_no' = ocr_no + 1
  /\ UNCHANGED <<offOcr, ocrEnv, ocr_outputs, opc, ocr_processed, ocr_written>>

\* gpu_turkish_ocr.py:217-228, the extraction raises
OcrExtractError ==
  /\ opc = "loop"
  /\ ocr_no <= Len(ocr_files)
  /\ ~OutputExists
  /\ OcrAt.extraction = None
  /\ ocr_skipped' = ocr_skipped + 1
  /\ ocr_no' = ocr_no + 1
  /\ UNCHANGED <<offOcr, ocrEnv, ocr_outputs, opc, ocr_processed, ocr_written,
                 ocr_exist_skips>>

\* gpu_turkish_ocr.py:230-237
OcrTooShort ==
  /\ opc = "loop"
  /\ ocr_no <= Len(ocr_files)
  /\ ~OutputExists
  /\ OcrAt.extraction # None
  /\ OcrAt.extraction[1] < ocr_min_length
  /\ ocr_skipped' = ocr_skipped + 1
  /\ ocr_no' = ocr_no + 1
  /\ UNCHANGED <<offOcr, ocrEnv, ocr_outputs, opc, ocr_processed, ocr_written,
                 ocr_exist_skips>>

\* gpu_turkish_ocr.py:239-241
OcrWrite ==
  /\ opc = "loop"
  /\ ocr_no <= Len(ocr_files)
  /\ ~OutputExists
  /\ OcrAt.extraction # None
  /\ OcrAt.extraction[1] >= ocr_min_length
  /\ ocr_outputs' = ocr_outputs \cup {relative_output_path(OcrAt.doc)}
  /\ ocr_written' = Append(ocr_written, relative_output_path(OcrAt.doc))
  /\ ocr_processed' = ocr_processed + 1
  /\ ocr_no' = ocr_no + 1
  /\ UNCHANGED <<offOcr, ocrEnv, opc, ocr_skipped, ocr_exist_skips>>

\* gpu_turkish_ocr.py:243-245
OcrDone ==
  /\ opc = "loop"
  /\ ocr_no > Len(ocr_files)
  /\ opc' = "exit"
  /\ UNCHANGED <<offOcr, ocrEnv, ocr_outputs, ocr_no, ocr_skipped, ocr_processed,
                 ocr_written, ocr_exist_skips>>

(* ------------------------------ the registry -------------------------- *)
\* the identifiers a request can name: those uuid4 gives and one more
JobIds == 1..(MaxJobs + 1)

\* main.py:113-114 at import, no request yet
RegInit ==
  /\ jobs = {}
  /\ jobs_lock = "free"
  /\ hpc = "idle"
  /\ hjob = None
  /\ sleepers = <<>>
  /\ uuids = {}
  /\ job_objects = 0
  /\ thread_started = {}
  /\ returned = {}
  /\ requests = 0
  /\ job_found = None
  /\ all_jobs = None

\* the backend is not part of the run
RegIdle == RegInit

\* jobs.get(job_id): the Job under the identifier, None without one
DictGet(d, id) ==
  IF \E e \in d : e[1] = id THEN Some((CHOOSE e \in d : e[1] = id)[2]) ELSE None

\* variant: the registry keeps the last Job only
DictSetLast(d, id, job) == {<<id, job>>}

\* jobs[job.job_id] = job
DictSet(d, id, job) == {e \in d : e[1] # id} \cup {<<id, job>>}

\* main.py:184, str(uuid.uuid4()): an identifier that was not given before
Uuid4(id) == id \in JobIds \ uuids

\* main.py:184, a submission handler has built its command and creates the
\* Job (handlers are coroutines of one event loop: one runs at a time)
RegisterCreate ==
  /\ hpc = "idle"
  /\ job_objects < MaxJobs
  /\ \E id \in JobIds :
       /\ Uuid4(id)
       /\ uuids' = uuids \cup {id}
       /\ hjob' = Some(<<id, job_objects + 1>>)
  /\ job_objects' = job_objects + 1
  /\ hpc' = "r_lock"
  /\ UNCHANGED <<offReg, jobs, jobs_lock, sleepers, thread_started, returned,
                 requests, job_found, all_jobs>>

\* 'with jobs_lock:' entered (main.py:185, 284, 293, 304)
LockAcquire ==
  /\ hpc \in {"r_lock", "d_lock", "c_lock", "l_lock"}
  /\ jobs_lock = "free"
  /\ jobs_lock' = "held"
  /\ hpc' = CASE hpc = "r_lock" -> "r_insert"
             [] hpc = "d_lock" -> "d_get"
             [] hpc = "c_lock" -> "c_get"
             [] hpc = "l_lock" -> "l_values"
  /\ UNCHANGED <<offReg, jobs, hjob, sleepers, uuids, job_objects, thread_started,
                 returned, requests, job_found, all_jobs>>

\* main.py:185-186
RegisterInsert ==
  /\ hpc = "r_insert"
  /\ jobs' = DictSet(jobs, hjob[1][1], hjob[1][2])
  /\ jobs_lock' = "free"
  /\ hpc' = "r_start"
  /\ UNCHANGED <<offReg, hjob, sleepers, uuids, job_objects, thread_started,
                 returned, requests, job_found, all_jobs>>

\* main.py:187, job.start()
RegisterStart ==
  /\ hpc = "r_start"
  /\ thread_started' = thread_started \cup {hjob[1][2]}
  /\ hpc' = "r_return"
  /\ UNCHANGED <<offReg, jobs, jobs_lock, hjob, sleepers, uuids, job_objects,
                 returned, requests, job_found, all_jobs>>

\* main.py:188 and 212, 234, 279: the response carries the job_id
RegisterReturn ==
  /\ hpc = "r_return"
  /\ returned' = returned \cup {hjob[1]}
  /\ hjob' = None
  /\ hpc' = "idle"
  /\ UNCHANGED <<offReg, jobs, jobs_lock, sleepers, uuids, job_objects,
                 thread_started, requests, job_found, all_jobs>>

\* a request that names an identifier arrives: job_detail (main.py:282-283)
\* or cancel_job (291-292)
LookupCall ==
  /\ hpc = "idle"
  /\ requests < MaxRequests
  /\ requests' = requests + 1
  /\ \E id \in JobIds : hjob' = Some(<<id, 0>>)
  /\ hpc' \in {"d_lock", "c_lock"}
  /\ UNCHANGED <<offReg, jobs, jobs_lock, sleepers, uuids, job_objects,
                 thread_started, returned, job_found, all_jobs>>

\* main.py:284-288, job_detail: 404 or the snapshot of the Job found
JobDetailGet ==
  /\ hpc = "d_get"
  /\ job_found' = Some(<<hjob[1][1], DictGet(jobs, hjob[1][1])>>)
  /\ jobs_lock' = "free"
  /\ hjob' = None
  /\ hpc' = "idle"
  /\ UNCHANGED <<offReg, jobs, sleepers, uuids, job_objects, thread_started,
                 returned, requests, all_jobs>>

\* main.py:293-298, cancel_job: 404, or job.cancel() and the handler
\* suspends in asyncio.sleep(0.2)
CancelJobGet ==
  /\ hpc = "c_get"
  /\ jobs_lock' = "free"
  /\ IF DictGet(jobs, hjob[1][1]) = None
     THEN /\ job_found' = Some(<<hjob[1][1], None>>)
          /\ UNCHANGED sleepers
     ELSE /\ sleepers' = Append(sleepers, <<hjob[1][1], DictGet(jobs, hjob[1][1])>>)
          /\ UNCHANGED job_found
  /\ hjob' = None
  /\ hpc' = "idle"
  /\ UNCHANGED <<offReg, jobs, uuids, job_objects, thread_started, returned,
                 requests, all_jobs>>

\* main.py:298-299, the sleep is over: the snapshot of the Job looked up
\* before it is returned
CancelJobResume ==
  /\ hpc = "idle"
  /\ sleepers # <<>>
  /\ job_found' = Some(Head(sleepers))
  /\ sleepers' = Tail(sleepers)
  /\ UNCHANGED <<offReg, jobs, jobs_lock, hpc, hjob, uuids, job_objects,
                 thread_started, returned, requests, all_jobs>>

\* main.py:302-303, job_list arrives
JobListCall ==
  /\ hpc = "idle"
  /\ requests < MaxRequests
  /\ requests' = requests + 1
  /\ hpc' = "l_lock"
  /\ UNCHANGED <<offReg, jobs, jobs_lock, hjob, sleepers, uuids, job_objects,
                 thread_started, returned, job_found, all_jobs>>

\* main.py:304-306, list(jobs.values())
JobListValues ==
  /\ hpc = "l_values"
  /\ all_jobs' = Some({e[2] : e \in jobs})
  /\ jobs_lock' = "free"
  /\ hpc' = "idle"
  /\ UNCHANGED <<offReg, jobs, hjob, sleepers, uuids, job_objects, thread_started,
                 returned, requests, job_found>>

(* --------------------------- specifications ---------------------------- *)
Init ==
  JobInit /\ ChunkIdle /\ JsonIdle /\ AggIdle /\ ReportIdle /\ CliIdle /\ DriveIdle /\ OcrIdle
    /\ RegIdle

\* the web backend: one start() per Job, cancel and snapshot from the loop
Next ==
  \/ RegisterJob
  \/ RunStep(1)
  \/ ProcStep(1)
  \/ CancelCall
  \/ CancelStep
  \/ SnapshotCall
  \/ SnapshotStep

Spec == Init /\ [][Next]_vars

\* the same backend under fair scheduling: a run thread that can take a step
\* is scheduled, and the event loop finishes a handler it has entered
\* (cancel() makes no blocking call but the lock, main.py:93-97)
\* snapshot() writes no field of the Job and holds the lock for the copy
\* only, so the run thread's progress is checked against cancel() alone
NextFair ==
  \/ RegisterJob
  \/ RunStep(1)
  \/ ProcStep(1)
  \/ CancelCall
  \/ CancelStep

Fairness ==
  /\ WF_vars(RunStep(1))
  /\ WF_vars(CancelStep)

SpecFair == Init /\ [][NextFair]_vars /\ Fairness

\* the Job class driven directly: any number of start() calls
NextApi ==
  \/ JobStart
  \/ \E t \in Threads : RunStep(t) \/ RunReadClosed(t)
  \/ \E p \in Threads : ProcStep(p)

SpecApi == Init /\ [][NextApi]_vars

\* _append_log called MaxAppends times on a fresh Job
AppendLogCall ==
  /\ appended < MaxAppends
  /\ appended' = appended + 1
  /\ logs' = AppendLog(logs, Line("out", appended + 1))
  /\ UNCHANGED <<offJob, status, return_code, process, lock, procVars, runVars,
                 loopVars, history, cancel_hits, spawn_failed, cpre, waits>>

SpecLog == Init /\ [][AppendLogCall]_vars

\* a running Job that has logged its command line and the child's first
\* output lines, FullGap lines short of a full log; the child has one more
\* line to write
FullLines == LogCap - FullGap

InitFull ==
  /\ status = "running"
  /\ return_code = None
  /\ logs = [i \in 1..FullLines |-> IF i = 1 THEN Line("cmd", 0) ELSE Line("out", i - 1)]
  /\ process = Some(1)
  /\ lock = Free
  /\ proc = [p \in Threads |-> IF p = 1 THEN "alive" ELSE "none"]
  /\ exitcode = [p \in Threads |-> 0]
  /\ pipe = [p \in Threads |-> 0]
  /\ emitted = [p \in Threads |-> IF p = 1 THEN FullLines - 1 ELSE 0]
  /\ emit_cap = FullLines
  /\ closed = [p \in Threads |-> FALSE]
  /\ sigterm = [p \in Threads |-> FALSE]
  /\ signals = 0
  /\ rpc = [t \in Threads |-> IF t = 1 THEN "read" ELSE "idle"]
  /\ rstdout = [t \in Threads |-> IF t = 1 THEN Some(1) ELSE None]
  /\ rline = [t \in Threads |-> None]
  /\ starts = 1
  /\ epc = "idle"
  /\ cancels = 0
  /\ snapshots = 0
  /\ snap = [logs |-> <<>>, status |-> "pending", return_code |-> None]
  /\ history = logs
  /\ cancel_hits = 0
  /\ spawn_failed = FALSE
  /\ cpre = None
  /\ appended = 0
  /\ waits = 0
  /\ ChunkIdle
  /\ JsonIdle
  /\ AggIdle
  /\ ReportIdle
  /\ CliIdle
  /\ DriveIdle
  /\ OcrIdle
  /\ RegIdle

NextFull ==
  \/ RunAppendAcquire(1)
  \/ RunAppendRelease(1)
  \/ RunReadLine(1)
  \/ RunReadEof(1)
  \/ RunWait(1)
  \/ RunSetFinal(1)
  \/ ProcStep(1)
  \/ CancelCall
  \/ CancelStep
  \/ SnapshotCall
  \/ SnapshotStep

SpecFull == InitFull /\ [][NextFull]_vars

\* chunk_text applied to each accepted argument triple
NextChunk ==
  \/ ChunkTextEmpty
  \/ ChunkTextBegin
  \/ ChunkTextLoop

InitChunk ==
  JobInit /\ ChunkInit /\ JsonIdle /\ AggIdle /\ ReportIdle /\ CliIdle /\ DriveIdle /\ OcrIdle
    /\ RegIdle

SpecChunk == InitChunk /\ [][NextChunk]_vars

\* try_extract_json on one response
InitJson ==
  JobInit /\ ChunkIdle /\ JsonInit /\ AggIdle /\ ReportIdle /\ CliIdle /\ DriveIdle /\ OcrIdle
    /\ RegIdle

SpecJson == InitJson /\ [][TryExtractJsonCall]_vars

\* aggregate_results on one list of chunk results
InitAgg ==
  JobInit /\ ChunkIdle /\ JsonIdle /\ AggInit /\ ReportIdle /\ CliIdle /\ DriveIdle /\ OcrIdle
    /\ RegIdle

SpecAgg == InitAgg /\ [][AggregateResultsCall]_vars

\* write_combined_report on one batch of payloads
InitReport ==
  JobInit /\ ChunkIdle /\ JsonIdle /\ AggIdle /\ ReportInit /\ CliIdle /\ DriveIdle /\ OcrIdle
    /\ RegIdle

SpecReport == InitReport /\ [][WriteCombinedReportCall]_vars

\* one run of the analysis command line
InitCli ==
  JobInit /\ ChunkIdle /\ JsonIdle /\ AggIdle /\ ReportIdle /\ CliInit /\ DriveIdle /\ OcrIdle
    /\ RegIdle

NextCli ==
  \/ ParseArgsError
  \/ ParseArgsOk
  \/ MainNoRoot
  \/ MainNoAccount
  \/ MainFindFiles
  \/ MainNoFiles
  \/ MainInitFails
  \/ MainInitOk
  \/ ProcessFileRead
  \/ ProcessFileReadError
  \/ RunChunkOk
  \/ RunChunkFail
  \/ ProcessFileSkip
  \/ ProcessFileWrite
  \/ ProcessFileWriteError
  \/ MainNothingProcessed
  \/ MainWriteReport

SpecCli == InitCli /\ [][NextCli]_vars

\* the analysis command line run again on the directory it has written to
NextCliRerun == NextCli \/ MainRerun

SpecCliRerun == InitCli /\ [][NextCliRerun]_vars

\* one walk of the downloader
InitDrive ==
  JobInit /\ ChunkIdle /\ JsonIdle /\ AggIdle /\ ReportIdle /\ CliIdle /\ DriveInit /\ OcrIdle
    /\ RegIdle

DriveStep ==
  \/ DrivePopNew
  \/ DrivePopVisited
  \/ DriveList
  \/ DriveListError
  \/ DriveItemFolder
  \/ DriveItemExists
  \/ DriveItemUnsupported
  \/ DriveItemDownload
  \/ DriveItemHttpError
  \/ DriveItemOtherError
  \/ DrivePageDone
  \/ DriveDone

NextDrive == DriveStep \/ DriveRerun

SpecDrive == InitDrive /\ [][NextDrive]_vars

\* the downloader is one sequential program: a walk that can take a step
\* takes it
SpecDriveFair == InitDrive /\ [][NextDrive]_vars /\ WF_vars(DriveStep)

\* one OCR run
InitOcr ==
  JobInit /\ ChunkIdle /\ JsonIdle /\ AggIdle /\ ReportIdle /\ CliIdle /\ DriveIdle /\ OcrInit
    /\ RegIdle

NextOcr ==
  \/ OcrNoFiles
  \/ OcrBegin
  \/ OcrSkipExisting
  \/ OcrExtractError
  \/ OcrTooShort
  \/ OcrWrite
  \/ OcrDone

SpecOcr == InitOcr /\ [][NextOcr]_vars

\* the backend serving submissions, lookups, cancellations and listings
InitReg ==
  JobInit /\ ChunkIdle /\ JsonIdle /\ AggIdle /\ ReportIdle /\ CliIdle /\ DriveIdle /\ OcrIdle
    /\ RegInit

NextReg ==
  \/ RegisterCreate
  \/ LockAcquire
  \/ RegisterInsert
  \/ RegisterStart
  \/ RegisterReturn
  \/ LookupCall
  \/ JobDetailGet
  \/ CancelJobGet
  \/ CancelJobResume
  \/ JobListCall
  \/ JobListValues

SpecReg == InitReg /\ [][NextReg]_vars

(* -------------------------------- claims ------------------------------- *)
\* C1: once the status of a Job is completed, failed or cancelled it never
\* changes to another value.
C1_StatusNeverLeavesTerminal ==
  [][(status \in Terminal) => (status' = status)]_vars

\* C2: when cancel() found the process running, the final status of the Job
\* (run thread finished, cancel() returned) is cancelled, whatever the exit
\* code.
C2_CancelWhileRunningEndsCancelled ==
  (cancel_hits > 0 /\ rpc[1] = "done" /\ epc = "idle") => status = "cancelled"

\* C3: a cancel() entered while the status is terminal changes neither the
\* status, the return code nor the log, and sends no termination signal.
C3_CancelOnTerminalIsNoOp ==
  [][(CancelStep /\ cpre # None /\ cpre[1] \in Terminal)
       => /\ status' = status
          /\ return_code' = return_code
          /\ logs' = logs
          /\ (signals' = signals)]_vars

\* C4: a spawned Job that no cancel() took effect on ends with the exit code
\* of its process as return_code, completed for 0 and failed otherwise.
C4_ExitCodeDecidesStatus ==
  (rpc[1] = "done" /\ process # None /\ cancel_hits = 0)
    => /\ return_code = Some(exitcode[1])
       /\ exitcode[1] = 0 => status = "completed"
       /\ exitcode[1] # 0 => status = "failed"

C4_Witness ==
  /\ rpc[1] = "done"
  /\ process # None
  /\ cancel_hits = 0
  /\ exitcode[1] = 0
  /\ return_code = Some(0)
  /\ status = "completed"

\* C5: over any sequence of start() calls the status enters running only
\* from pending and at most one process is spawned.
C5_StartOnlyFromPending ==
  [][/\ (status' = "running" /\ status # "running") => status = "pending"
     /\ (Cardinality({p \in Threads : proc'[p] # "none"}) <= 1)]_vars

\* C6: after a failed spawn the Job stays failed with return code -1, the
\* failure line is the last of the log, and no process exists for the Job.
C6_SpawnFailureIsTerminal ==
  /\ spawn_failed => (process = None /\ \A p \in Threads : proc[p] = "none")
  /\ (spawn_failed /\ rpc[1] = "done")
       => /\ status = "failed"
          /\ return_code = Some(SpawnFailCode)
          /\ logs # <<>>
          /\ logs[Len(logs)] = Line("spawnfail", 0)

C6_Witness ==
  /\ spawn_failed
  /\ rpc[1] = "done"
  /\ cancels = MaxCancels
  /\ epc = "idle"
  /\ status = "failed"
  /\ return_code = Some(SpawnFailCode)

\* C7: after n appends the log is exactly the last min(n, 2000) appended
\* lines in append order.
C7_LogKeepsLastLines ==
  LET kept == Min(appended, LogCap) IN
    logs = [i \in 1..kept |-> Line("out", appended - kept + i)]

C7_Witness ==
  /\ appended = 3000
  /\ Len(logs) = 2000
  /\ logs[1] = Line("out", 1001)
  /\ logs[2000] = Line("out", 3000)

\* C8: the log list a snapshot() copies has at most 2000 entries and is the
\* most recent suffix of the lines fully appended at the instant of the copy.
C8_SnapshotNotTorn ==
  [][(epc = "s_copy" /\ epc' = "s_status")
       => /\ Len(snap'.logs) <= LogCap
          /\ (snap'.logs = LastN(history, LogCap))]_vars

C8_Witness ==
  /\ epc = "s_status"
  /\ Len(history) > LogCap
  /\ Len(snap.logs) = LogCap
  /\ snap.logs[1] # Line("cmd", 0)
  /\ snap.logs[LogCap] = Line("cancel", 0)

RECURSIVE JoinStripped(_, _)
\* the first chunk followed by every later chunk without its first ov
\* characters
JoinStripped(cs, ov) ==
  IF Len(cs) <= 1 THEN (IF cs = <<>> THEN <<>> ELSE cs[1])
  ELSE LET init == SubSeq(cs, 1, Len(cs) - 1)
           last == cs[Len(cs)]
       IN JoinStripped(init, ov) \o SubSeq(last, ov + 1, Len(last))

\* C9: chunk i+1 starts chunk_size - overlap after chunk i, and the last
\* overlap characters of chunk i are the first ones of chunk i+1 (as many as
\* a shorter final chunk has).
C9_ConsecutiveChunksOverlap ==
  cpc = "done" =>
    \A i \in 1..(Len(chunks) - 1) :
      /\ chunk_starts[i + 1] = chunk_starts[i] + chunk_size - overlap
      /\ LET k == Min(overlap, Len(chunks[i + 1]))
             from == Len(chunks[i]) - overlap
         IN SubSeq(chunks[i], from + 1, from + k) = SubSeq(chunks[i + 1], 1, k)

\* C10: every offset of the text lies in a chunk, and the first chunk joined
\* with the later chunks stripped of their first overlap characters is the
\* text.
C10_ChunksCoverTextOnce ==
  cpc = "done" =>
    /\ \A k \in 0..(Len(text) - 1) :
         \E i \in 1..Len(chunks) :
           chunk_starts[i] <= k /\ k < chunk_starts[i] + Len(chunks[i])
    /\ JoinStripped(chunks, overlap) = text

C13_RoundTrip ==
  (jpc = "done" /\ jform \in {"bare", "fenced"}) => jresult = jvalue

\* C14: a response that holds neither brace gives None.
C14_NoBracesGivesNone ==
  (jpc = "done" /\ \A k \in 1..Len(response) : response[k] \notin {"{", "}"})
    => jresult = None

\* the trimmed strings in list values under the four keys of the mapping
\* payloads, blank ones left out
C15_Strings(v) ==
  IF v = None \/ v[1] # "arr" THEN {}
  ELSE {Strip(v[2][j][2]) : j \in {i \in 1..Len(v[2]) : v[2][i] # None /\ v[2][i][1] = "str"}}

C15_TermsOf(results) ==
  {t \in UNION {
       LET pl == results[k].parsed_json
       IN IF pl = None \/ pl[1] # "obj" THEN {}
          ELSE UNION {C15_Strings(pl[2][m][2]) :
                        m \in {i \in 1..Len(pl[2]) :
                                 pl[2][i][1] \in {<<"terms">>, <<"terimler">>, <<"keywords">>,
                                                  <<"anahtar_kelimeler">>}}}
       : k \in 1..Len(results)} : t # <<>>}

C15_IsAscending(list) ==
  \A i \in 1..(Len(list) - 1) : StrLess(list[i], list[i + 1])

C15_Orders(n) == {f \in [1..n -> 1..n] : \A i, j \in 1..n : f[i] = f[j] => i = j}

\* C15: when unique_terms is emitted it is the ascending duplicate-free list
\* of the trimmed non-blank terms; every permutation of the chunks and a
\* second aggregation give the same; payloads [a,b] and [b,c] give [a,b,c].
C15_UniqueTermsSortedUnion ==
  agg_calls >= 1 =>
    /\ summary # None =>
         /\ C15_IsAscending(summary[1])
         /\ {summary[1][i] : i \in 1..Len(summary[1])} = C15_TermsOf(per_chunk_results)
    /\ \A f \in C15_Orders(Len(per_chunk_results)) :
         AggregateResults([k \in 1..Len(per_chunk_results) |-> per_chunk_results[f[k]]])
           = summary
    /\ agg_calls = 2 => summary = prev_summary
    /\ (/\ Len(per_chunk_results) = 2
        /\ per_chunk_results[1].parsed_json = Terms("terms", <<JStr(<<"a">>), JStr(<<"b">>)>>)
        /\ per_chunk_results[2].parsed_json = Terms("terms", <<JStr(<<"b">>), JStr(<<"c">>)>>))
       => summary = Some(<<<<"a">>, <<"b">>, <<"c">>>>)

C15_Witness ==
  /\ agg_calls = 2
  /\ Len(per_chunk_results) = 3
  /\ per_chunk_results[1].parsed_json = Terms("terms", <<JStr(<<"b">>), JStr(<<"c">>)>>)
  /\ per_chunk_results[2].parsed_json = JNum(1)
  /\ per_chunk_results[3].parsed_json = Terms("terimler", <<JStr(<<" ", "a">>), JStr(<<"B">>)>>)
  /\ summary = Some(<<<<"B">>, <<"a">>, <<"b">>, <<"c">>>>)

\* C16: unique_terms is in the summary exactly when a non-blank term was
\* collected, and it is never the empty list.
C16_NoEmptyTermsField ==
  agg_calls >= 1 =>
    /\ summary # None <=> C15_TermsOf(per_chunk_results) # {}
    /\ summary # Some(<<>>)

C17_TermsOfFile(path) ==
  LET k == CHOOSE i \in 1..Len(report_results) : report_results[i].relative_path = path
  IN report_results[k].results.summary

\* C17: the report's global terms are the sorted union of the files' terms;
\* its file sections are the batch's files in ascending path order, each with
\* its own terms or the no-terms marker; a file with [x] and a file without
\* payload give global [x], x for the first and the marker for the second.
C17_CombinedReportSorted ==
  report # None =>
    LET r == report[1]
        all == UNION {LET t == report_results[k].results.summary
                      IN IF t = None THEN {} ELSE {t[1][i] : i \in 1..Len(t[1])}
                      : k \in 1..Len(report_results)}
    IN /\ IF all = {} THEN r.overall_terms = None
          ELSE /\ r.overall_terms # None
               /\ {r.overall_terms[1][i] : i \in 1..Len(r.overall_terms[1])} = all
               /\ \A i \in 1..(Len(r.overall_terms[1]) - 1) :
                    StrLess(r.overall_terms[1][i], r.overall_terms[1][i + 1])
       /\ Len(r.files) = Len(report_results)
       /\ {r.files[k].relative_path : k \in 1..Len(r.files)}
            = {report_results[k].relative_path : k \in 1..Len(report_results)}
       /\ \A k \in 1..(Len(r.files) - 1) :
            StrLess(r.files[k].relative_path, r.files[k + 1].relative_path)
       /\ \A k \in 1..Len(r.files) :
            LET own == C17_TermsOfFile(r.files[k].relative_path)
            IN IF own = None \/ own = Some(<<>>)
               THEN r.files[k].terms = None
               ELSE r.files[k].terms = own
       /\ (/\ Len(report_results) = 2
           /\ report_results[1].results.summary = Some(<<<<"x">>>>)
           /\ report_results[2].results.summary = None)
          => /\ r.overall_terms = Some(<<<<"x">>>>)
             /\ \A k \in 1..2 :
                  r.files[k].terms =
                    (IF r.files[k].relative_path = report_results[1].relative_path
                     THEN Some(<<<<"x">>>>) ELSE None)

C17_Witness ==
  /\ report # None
  /\ Len(report_results) = 2
  /\ report_results[1].relative_path = <<"b">>
  /\ report_results[2].relative_path = <<"a">>
  /\ report_results[1].results.summary = Some(<<<<"x">>>>)
  /\ report_results[2].results.summary = None
  /\ report[1].files[1].relative_path = <<"a">>
  /\ report[1].files[1].terms = None

\* C12: with chunk size S <= 0, overlap O < 0 or O >= S the run ends in
\* argument parsing: no file is discovered, no text chunked, no model call
\* made and no output written.
C12_InvalidConfigRejected ==
  (arg_chunk_size <= 0 \/ arg_chunk_overlap < 0 \/ arg_chunk_overlap >= arg_chunk_size) =>
    /\ mpc \in {"idle", "parse", "exit"}
    /\ mpc = "exit" => exit_code = Some(2)
    /\ ~discovered
    /\ chunk_calls = 0
    /\ model_calls = <<>>
    /\ written = {}

C12_Witness ==
  /\ mpc = "exit"
  /\ exit_code = Some(2)
  /\ arg_chunk_size = 2
  /\ arg_chunk_overlap = 2
  /\ root_exists /\ account_exists /\ client_ok
  /\ Len(disk_files) = MaxFiles

\* the model calls made for the file being processed
C18_CallsOfFile ==
  SelectSeq(model_calls, LAMBDA c : c[1] = file_no)

\* C18: when the loop over the n chunks of a file ends, one model call was
\* made per chunk in ascending order, the result list has the n entries
\* 1..n in order, and the entry of a failed call holds the error sentinel;
\* during the loop a failed call is followed by the next chunk's call.
C18_OneCallPerChunk ==
  mpc = "chunks" =>
    /\ Len(per_chunk) = chunk_no - 1
    /\ Len(C18_CallsOfFile) = Len(per_chunk)
    /\ \A k \in 1..Len(per_chunk) :
         /\ per_chunk[k].chunk_index = k
         /\ C18_CallsOfFile[k][2] = k
         /\ C18_CallsOfFile[k][3] = "fail" => per_chunk[k].raw_response = ErrorSentinel
    /\ chunk_no > Len(file_chunks) =>
         Len(per_chunk) =
           Len(ChunkText(disk_files[file_no].text, arg_chunk_size, arg_chunk_overlap))

C18_Witness ==
  /\ mpc = "chunks"
  /\ chunk_no > Len(file_chunks)
  /\ Len(per_chunk) = 2
  /\ per_chunk[1].raw_response = ErrorSentinel
  /\ per_chunk[2].parsed_json = Terms("terms", <<JStr(<<"x">>)>>)

\* C20: a run that ends with the root absent, the service account file
\* absent, no text file under the root or a client that does not start,
\* returns a non-zero status, has made no model call and written no output.
C20_BatchErrorsExitNonZero ==
  (/\ mpc = "exit"
   /\ \/ ~root_exists
      \/ ~account_exists
      \/ disk_files = <<>>
      \/ ~client_ok) =>
    /\ exit_code # Some(0)
    /\ model_calls = <<>>
    /\ written = {}

\* C19: an error on one item never aborts a batch: when the downloader's
\* walk ends no folder is left in the queue and no entry left on the page,
\* and when the analysis run ends after its client started every text file
\* was handed to process_file.
C19_ItemErrorNeverAborts ==
  /\ dpc = "exit" => (\A k \in 1..Len(queue) : queue[k][1] \in visited) /\ page_items = <<>>
  /\ (mpc = "exit" /\ file_no >= 1) => file_no > Len(text_files)

\* C21: the registry holds one Job per returned submission, each under its
\* own identifier; a Job whose thread was started is in the registry; no
\* entry is ever removed or replaced; and a lookup by an identifier a
\* submission returned finds the Job of that submission.
C21_RegistryKeepsEveryJob ==
  /\ [](/\ returned \subseteq jobs
        /\ \A e, f \in jobs : (e[1] = f[1] \/ e[2] = f[2]) => e = f
        /\ \A o \in thread_started : \E e \in jobs : e[2] = o
        /\ Cardinality(jobs) <= job_objects
        /\ (hpc = "idle" => Cardinality(jobs) = job_objects))
  /\ [][jobs \subseteq jobs']_vars
  /\ [][(job_found' # job_found)
          => (\A r \in returned : r[1] = job_found'[1][1] => job_found'[1][2] = Some(r[2]))]_vars

C21_Witness ==
  /\ Cardinality(returned) = MaxJobs
  /\ thread_started = 1..MaxJobs
  /\ sleepers # <<>>
  /\ job_found # None
  /\ job_found[1] \in {<<r[1], Some(r[2])>> : r \in returned}
  /\ all_jobs = Some(1..MaxJobs)

\* C22: a run of the analysis command that follows a fully successful run
\* with the same arguments on the same root makes no model call.
C22_RerunMakesNoModelCall ==
  cli_run >= 2 => model_calls = <<>>

\* C23: an OCR run over an empty output folder, with minimum length 0 and
\* no extraction error, writes one text file per document: the documents
\* map to different output paths, as many files are written as there are
\* documents, and none is skipped as existing.
C23_OneOutputPerInput ==
  (/\ opc = "exit"
   /\ ocr_existing = {}
   /\ ocr_min_length = 0
   /\ \A k \in 1..Len(ocr_files) : ocr_files[k].extraction # None)
    => /\ \A i, j \in 1..Len(ocr_files) :
            i # j => relative_output_path(ocr_files[i].doc)
                       # relative_output_path(ocr_files[j].doc)
       /\ Len(ocr_written) = Len(ocr_files)
       /\ Cardinality(ocr_outputs) = Len(ocr_files)
       /\ ocr_exist_skips = 0

\* C24: with overwrite unset no file is downloaded or exported whose local
\* output file exists, so no existing local file is rewritten, and a run
\* that follows a fully successful run on the same remote tree downloads
\* nothing.
C24_NoOverwriteSkipsExisting ==
  /\ [][(DriveItemDownload /\ ~overwrite) => (WrittenPath \notin local_files)]_vars
  /\ []((drive_run >= 2 /\ ~overwrite /\ list_faults = {} /\ http_faults = {}
          /\ io_faults = {})
        => downloads = <<>>)

\* C25: a cancel() entered while the status is running returns only after
\* it has signalled the process, set the status to cancelled and appended
\* the cancellation line; a cancel() entered in any other status returns
\* without having done anything.
C25_CancelActsIffRunning ==
  [][/\ (epc = "c_check" /\ epc' = "idle") => (cpre # Some("running"))
     /\ (epc = "c_check" /\ epc' = "c_term") => (cpre = Some("running"))
     /\ (epc = "c_log" /\ epc' = "idle")
          => /\ sigterm'[process[1]]
             /\ status' = "cancelled"
             /\ (history'[Len(history')] = Line("cancel", 0))]_vars

\* C26: once the run thread of a spawned Job whose process has exited has
\* finished, the last entry of the log is the line recording the exit code.
C26_ExitLineIsLast ==
  (process # None /\ proc[1] = "exited" /\ rpc[1] = "done")
    => /\ logs # <<>>
       /\ logs[Len(logs)] = Line("exit", exitcode[1])

\* C27: under fair scheduling, once the process of a spawned Job has exited
\* the run thread finishes having waited for it exactly once, with the exit
\* code in return_code and a terminal status; it never waits a second time.
C27_ProcessReapedOnce ==
  /\ [](waits <= 1)
  /\ (process # None /\ proc[1] = "exited")
       ~> (/\ rpc[1] = "done"
           /\ waits = 1
           /\ return_code = Some(exitcode[1])
           /\ status \in Terminal)

C27_Witness ==
  /\ process # None
  /\ proc[1] = "exited"
  /\ sigterm[1]
  /\ exitcode[1] = -15
  /\ rpc[1] = "done"
  /\ waits = 1
  /\ return_code = Some(-15)
  /\ status \in Terminal

\* C28: a Job whose status is completed or failed has a return code, and
\* no snapshot() reports completed or failed with a null return code.
C28_TerminalHasReturnCode ==
  /\ status \in {"completed", "failed"} => return_code # None
  /\ (snapshots > 0 /\ epc = "idle" /\ snap.status \in {"completed", "failed"})
       => snap.return_code # None

\* C29: on every remote folder graph, a folder under several parents and a
\* cycle included, every walk that starts ends, and no folder identifier is
\* listed twice in one walk.
C29_WalkTerminatesListingOnce ==
  /\ [](\A i, j \in 1..Len(listed) : i # j => listed[i] # listed[j])
  /\ (dpc = "walk") ~> (dpc = "exit")

C29_Witness ==
  /\ remote = DriveShared
  /\ dpc = "exit"
  /\ drive_exit = Some(0)
  /\ Len(listed) = 3
  /\ {listed[i] : i \in 1..3} = DriveFolders

====
